---- MODULE Spec2Model ----
(***************************************************************************)
(* A model of the pingap reverse proxy core:                               *)
(*   - the per-server request state machine of src/proxy/server.rs         *)
(*     (counters accepted / processing, request_filter, fail_to_proxy,     *)
(*     logging),                                                           *)
(*   - the inflight limit plugin of src/plugin/limit.rs,                   *)
(*   - the cache object codec of src/cache/http_cache.rs,                  *)
(*   - the two-tier file cache of src/cache/file.rs.                       *)
(* Each part has its own specification over its own group of variables;    *)
(* the variables of the other parts keep their initial values.             *)
(***************************************************************************)
EXTENDS Integers, Sequences, FiniteSets, TLC

VARIABLES
    \* ---- proxy/server.rs: Server and the per-request State
    processing,     \* Server.processing : AtomicI32
    accepted,       \* Server.accepted   : AtomicU64
    pc,             \* the phase each request is in
    ctx,            \* the request's State (status, location_index)
    err,            \* the error a phase returned, until fail_to_proxy maps it
    logged,         \* how many times the logging hook ran for the request
    ended,          \* the way the request ended
    nAccepts,       \* requests that entered request_filter
    nLoggings       \* runs of the logging hook

serverVars == <<processing, accepted, pc, ctx, err, logged, ended,
                nAccepts, nLoggings>>

VARIABLES
    \* ---- plugin/limit.rs: the limit plugins of one location's chain
    lchain,         \* the chain: the Limiter (tag, max) of each position
    inflight,       \* Limiter.inflight of each position: key -> count
    lreq,           \* the request: the value it carries for each tag
    lpc,            \* where the request is
    lidx,           \* the position of the plugin the request is at
    lguard,         \* incr's local guard, between the increment and its use
    lvalue,         \* incr's local value: the count after the increment
    lctx,           \* the request's State (guard, client_ip)
    lresult,        \* the status the chain failed with (0: it did not)
    lfull,          \* max admitted requests held the key at the increment
    ladmitted       \* the positions whose plugin admitted the request

limitVars == <<lchain, inflight, lreq, lpc, lidx, lguard, lvalue, lctx,
               lresult, lfull, ladmitted>>

VARIABLES
    \* ---- cache/http_cache.rs: CacheObject and its byte encoding
    cobj,           \* a CacheObject
    cbuf,           \* a byte buffer: the encoding of cobj, or a part of it
    cout,           \* what decoding cbuf gave
    cpc             \* new, encoded, truncated, decoded

codecVars == <<cobj, cbuf, cout, cpc>>

VARIABLES
    \* ---- cache/file.rs: FileCache
    directory,      \* the files of the cache directory, by key
    cache,          \* the tinyufo entries, by key
    puts,           \* the put calls in progress, by caller
    got,            \* the key and the result of the get that just returned
    settled         \* by key, the object of a put that succeeded and that
                    \* no remove or other put of the key followed or overlapped

cacheVars == <<directory, cache, puts, got, settled>>

VARIABLES
    \* ---- cache/http_cache.rs: HttpCache over a storage
    miss,           \* the miss handler
    purged,         \* the key and the result of the purge that just returned
    updated         \* the update_meta call

httpCacheVars == <<miss, purged, updated>>

VARIABLES
    \* ---- cache/http_cache.rs: CompleteHit
    hit,            \* the hit handler
    hseek,          \* the last seek call and its result
    hout            \* what the last read returned, if no seek followed it

hitVars == <<hit, hseek, hout>>

VARIABLES
    \* ---- proxy/server.rs: one request through request_filter, in detail
    fconf,          \* the Server: admin, authorization, the paths, the locations
    freq,           \* the request: host, path, Authorization header
    fpc,            \* the phase the request is at
    fctx,           \* the State of the request: status, location_index
    fout,           \* what request_filter did and returned
    fran,           \* the phases that ran for the request
    fwritten,       \* the status of the response header written downstream
    fused           \* the locations the upstream phases acted on

filterVars == <<fconf, freq, fpc, fctx, fout, fran, fwritten, fused>>

VARIABLES
    \* ---- proxy/server.rs: one call of fail_to_proxy, then logging
    perr,
    pctx,
    psession,
    pcode,
    ppc

failVars == <<perr, pctx, psession, pcode, ppc>>

VARIABLES
    \* ---- acme/validity_checker.rs: the certificates, the clock, the webhooks of the last run
    vlist,
    vnow,
    vsent,
    vresult,
    vpc

validityVars == <<vlist, vnow, vsent, vresult, vpc>>

VARIABLES
    \* ---- discovery/common.rs, discovery/dns.rs: a discovery, the resolver, the caller's backends
    dconf,
    dresolver,
    dheld,
    dresult,
    dwebhooks,
    druns,
    dpc

discoveryVars == <<dconf, dresolver, dheld, dresult, dwebhooks, druns, dpc>>

VARIABLES
    \* ---- plugin/limit.rs, plugin/wirefilter_plugin.rs, plugin/owasp_crs_plugin.rs: a plugin made from its configuration and called once
    wconf,
    wplugin,
    wstep,
    wreq,
    wresult,
    wpc

pluginVars == <<wconf, wplugin, wstep, wreq, wresult, wpc>>

VARIABLES
    \* ---- proxy/server.rs: Server::new and Server::run, the background services
    aconf,
    aserver,
    aservices,
    apc

assemblyVars == <<aconf, aserver, aservices, apc>>

VARIABLES
    \* ---- cache/http_cache.rs: ObjectMissHandler over bodies of many KiB
    oh,
    ogiven,
    oputs,
    oret,
    opc

objectVars == <<oh, ogiven, oputs, oret, opc>>

VARIABLES
    \* ---- plugin/limit.rs: Limiter::new
    nvalue,
    nlimiter,
    npc

limiterVars == <<nvalue, nlimiter, npc>>

VARIABLES
    \* ---- cache/file.rs: what get returned when a put was called
    pbefore

failedPutVars == <<pbefore>>

vars == <<serverVars, limitVars, codecVars, cacheVars, httpCacheVars, hitVars, filterVars, failVars, validityVars, discoveryVars, pluginVars, assemblyVars, objectVars, limiterVars, failedPutVars>>

nonServerVars == <<limitVars, codecVars, cacheVars, httpCacheVars, hitVars, filterVars, failVars, validityVars, discoveryVars, pluginVars, assemblyVars, objectVars, limiterVars, failedPutVars>>

nonLimitVars == <<serverVars, codecVars, cacheVars, httpCacheVars, hitVars, filterVars, failVars, validityVars, discoveryVars, pluginVars, assemblyVars, objectVars, limiterVars, failedPutVars>>

nonCodecVars == <<serverVars, limitVars, cacheVars, httpCacheVars, hitVars, filterVars, failVars, validityVars, discoveryVars, pluginVars, assemblyVars, objectVars, limiterVars, failedPutVars>>

nonCacheVars == <<serverVars, limitVars, codecVars, httpCacheVars, hitVars, filterVars, failVars, validityVars, discoveryVars, pluginVars, assemblyVars, objectVars, limiterVars, failedPutVars>>

nonHttpCacheVars == <<serverVars, limitVars, codecVars, hitVars, filterVars, failVars, validityVars, discoveryVars, pluginVars, assemblyVars, objectVars, limiterVars, failedPutVars>>

nonHitVars == <<serverVars, limitVars, codecVars, cacheVars, httpCacheVars, filterVars, failVars, validityVars, discoveryVars, pluginVars, assemblyVars, objectVars, limiterVars, failedPutVars>>

nonFilterVars == <<serverVars, limitVars, codecVars, cacheVars, httpCacheVars, hitVars, failVars, validityVars, discoveryVars, pluginVars, assemblyVars, objectVars, limiterVars, failedPutVars>>

nonFailVars == <<serverVars, limitVars, codecVars, cacheVars, httpCacheVars, hitVars, filterVars, validityVars, discoveryVars, pluginVars, assemblyVars, objectVars, limiterVars, failedPutVars>>

nonValidityVars == <<serverVars, limitVars, codecVars, cacheVars, httpCacheVars, hitVars, filterVars, failVars, discoveryVars, pluginVars, assemblyVars, objectVars, limiterVars, failedPutVars>>

nonDiscoveryVars == <<serverVars, limitVars, codecVars, cacheVars, httpCacheVars, hitVars, filterVars, failVars, validityVars, pluginVars, assemblyVars, objectVars, limiterVars, failedPutVars>>

nonPluginVars == <<serverVars, limitVars, codecVars, cacheVars, httpCacheVars, hitVars, filterVars, failVars, validityVars, discoveryVars, assemblyVars, objectVars, limiterVars, failedPutVars>>

nonAssemblyVars == <<serverVars, limitVars, codecVars, cacheVars, httpCacheVars, hitVars, filterVars, failVars, validityVars, discoveryVars, pluginVars, objectVars, limiterVars, failedPutVars>>

nonObjectVars == <<serverVars, limitVars, codecVars, cacheVars, httpCacheVars, hitVars, filterVars, failVars, validityVars, discoveryVars, pluginVars, assemblyVars, limiterVars, failedPutVars>>

nonLimiterVars == <<serverVars, limitVars, codecVars, cacheVars, httpCacheVars, hitVars, filterVars, failVars, validityVars, discoveryVars, pluginVars, assemblyVars, objectVars, failedPutVars>>

nonFailedPutVars == <<serverVars, limitVars, codecVars, cacheVars, httpCacheVars, hitVars, filterVars, failVars, validityVars, discoveryVars, pluginVars, assemblyVars, objectVars, limiterVars>>

nonCacheFailedPutVars == <<serverVars, limitVars, codecVars, httpCacheVars, hitVars, filterVars, failVars, validityVars, discoveryVars, pluginVars, assemblyVars, objectVars, limiterVars>>

(***************************************************************************)
(* Bounds                                                                  *)
(***************************************************************************)
MaxRequests == 2

MaxLimit == 2

MaxLen == 1

MaxBody == 2

MaxLocations == 2

Requests == 1..MaxRequests

NoneVal == "none"

(***************************************************************************)
(* proxy/server.rs                                                         *)
(***************************************************************************)

\* pingora::Error as fail_to_proxy reads it: etype, the status an
\* HTTPStatus(code) etype carries, and esource.
NewError(etype, code, esource) == [etype |-> etype, code |-> code, esource |-> esource]

\* util::new_internal_error(status, message)
NewInternalError(code) == NewError("HTTPStatus", code, "Internal")

NoError == [etype |-> NoneVal, code |-> 0, esource |-> NoneVal]

\* State::default(): no status (0), no location index (-1).
NewCtx == [status |-> 0, location_index |-> -1]

\* A request_filter that does not count the request in processing.
ProcessingAfterAcceptUncounted(p) == p

\* request_filter, line 407: self.processing.fetch_add(1)
ProcessingAfterAccept(p) == p + 1

\* request_filter, line 408: self.accepted.fetch_add(1)
AcceptedAfterAccept(a) == a + 1

\* A logging hook that leaves processing as it is.
ProcessingAfterLoggingKept(p) == p

\* A logging hook that uncounts the request twice.
ProcessingAfterLoggingTwice(p) == p - 2

\* logging, line 625: self.processing.fetch_add(-1)
ProcessingAfterLogging(p) == p - 1

\* A mapping that looks at the source before the explicit status.
ErrorCodeSourceFirst(e) ==
    CASE e.esource = "Upstream" -> 502
      [] e.esource = "Downstream" ->
            (CASE e.etype \in {"WriteError", "ReadError"} -> 500
               [] e.etype = "ConnectionClosed" -> 499
               [] OTHER -> 400)
      [] OTHER -> IF e.etype = "HTTPStatus" THEN e.code ELSE 500

\* fail_to_proxy, lines 573-585: the response code of an error
ErrorCode(e) ==
    IF e.etype = "HTTPStatus" THEN e.code
    ELSE CASE e.esource = "Upstream" -> 502
           [] e.esource = "Downstream" ->
                (CASE e.etype \in {"WriteError", "ReadError"} -> 500
                   [] e.etype = "ConnectionClosed" -> 499
                   [] OTHER -> 400)
           [] OTHER -> 500

\* What the runtime does with the Result<bool> of request_filter:
\* Ok(true) -> logging, Err -> fail_to_proxy, Ok(false) -> next phase.
AfterRequestFilter(result) ==
    CASE result = "done" -> "logging"
      [] result = "err" -> "fail_to_proxy"
      [] OTHER -> "proxy_upstream_filter"

\* The ways serve_stats_admin and the rest of request_filter can go for one
\* request: what it answers (status 0: nothing recorded by request_filter),
\* its Result, the error of an Err, and the location index it records.
RequestFilterOutcomes ==
    {   \* stats path: send_stats_response, Ok(true)
        [kind |-> "stats", result |-> "done", e |-> NoError, location |-> -1],
        \* admin server or admin path: 401 or the admin collaborator, Ok(true)
        [kind |-> "admin", result |-> "done", e |-> NoError, location |-> -1],
        \* sending the 401 failed: .send(session).await?
        [kind |-> "admin", result |-> "err",
         e |-> NewError("WriteError", 0, "Downstream"), location |-> -1],
        \* no location matched: new_internal_error(500, "Location not found")
        [kind |-> "location", result |-> "err",
         e |-> NewInternalError(500), location |-> -1],
        \* a plugin responded: exec_proxy_plugins gave Ok(true)
        [kind |-> "plugin", result |-> "done", e |-> NoError, location |-> -1],
        \* a plugin failed, e.g. the limit plugin's 429
        [kind |-> "plugin", result |-> "err",
         e |-> NewInternalError(429), location |-> -1],
        \* the chain ran through: ctx.location_index = Some(location_index)
        [kind |-> "proxy", result |-> "continue", e |-> NoError, location |-> 0] }

InitServer ==
    /\ processing = 0
    /\ accepted = 0
    /\ pc = [r \in Requests |-> "idle"]
    /\ ctx = [r \in Requests |-> NewCtx]
    /\ err = [r \in Requests |-> NoError]
    /\ logged = [r \in Requests |-> 0]
    /\ ended = [r \in Requests |-> NoneVal]
    /\ nAccepts = 0
    /\ nLoggings = 0

\* The runtime could not read the request (a malformed header, a broken
\* connection): no State is made for it and no hook runs.
ReadRequestFails(r) ==
    /\ pc[r] = "idle"
    /\ pc' = [pc EXCEPT ![r] = "done"]
    /\ ended' = [ended EXCEPT ![r] = "unread"]
    /\ UNCHANGED <<processing, accepted, ctx, err, logged, nAccepts, nLoggings>>
    /\ UNCHANGED nonServerVars

\* request_filter line 407: the request is counted in processing.
RequestFilterAccept(r) ==
    /\ pc[r] = "idle"
    /\ processing' = ProcessingAfterAccept(processing)
    /\ nAccepts' = nAccepts + 1
    /\ pc' = [pc EXCEPT ![r] = "rf_accepted"]
    /\ UNCHANGED <<accepted, ctx, err, logged, ended, nLoggings>>
    /\ UNCHANGED nonServerVars

\* request_filter line 408: the request is counted in accepted.
RequestFilterCount(r) ==
    /\ pc[r] = "rf_accepted"
    /\ accepted' = AcceptedAfterAccept(accepted)
    /\ pc' = [pc EXCEPT ![r] = "rf_serve"]
    /\ UNCHANGED <<processing, ctx, err, logged, ended, nAccepts, nLoggings>>
    /\ UNCHANGED nonServerVars

\* send_stats_response, lines 296-298: the body read from the counters.
ServerStats == [accepted |-> accepted, processing |-> processing]

\* send_stats_response, line 318: ctx.status = Some(StatusCode::OK)
SendStatsResponse(r) ==
    ctx' = [ctx EXCEPT ![r].status = 200]

\* request_filter lines 412-455: serve_stats_admin, the location, the plugins.
RequestFilterServe(r) ==
    /\ pc[r] = "rf_serve"
    /\ \E o \in RequestFilterOutcomes :
        /\ IF o.kind = "stats"
              THEN SendStatsResponse(r)
              ELSE ctx' = [ctx EXCEPT ![r].location_index = o.location]
        /\ err' = [err EXCEPT ![r] = o.e]
        /\ ended' = [ended EXCEPT ![r] =
                        IF o.result = "done" THEN "short_circuit" ELSE @]
        /\ pc' = [pc EXCEPT ![r] = AfterRequestFilter(o.result)]
    /\ UNCHANGED <<processing, accepted, logged, nAccepts, nLoggings>>
    /\ UNCHANGED nonServerVars

\* An error a later phase can end with: an upstream failure, a downstream
\* write or read failure, the client closing the connection, a malformed
\* request, an internal error.
PhaseErrors ==
    { NewError("ConnectError", 0, "Upstream"),
      NewError("WriteError", 0, "Downstream"),
      NewError("ConnectionClosed", 0, "Downstream"),
      NewError("ConnectError", 0, "Downstream"),
      NewError("ReadError", 0, "Internal") }

\* A phase returned Err(e): the runtime goes to fail_to_proxy with it.
PhaseFails(r, e) ==
    /\ err' = [err EXCEPT ![r] = e]
    /\ pc' = [pc EXCEPT ![r] = "fail_to_proxy"]

\* proxy_upstream_filter, lines 465-474: a directory or mock upstream answers
\* inline (Ok(false): the runtime logs and ends), else Ok(true).
ProxyUpstreamFilter(r) ==
    /\ pc[r] = "proxy_upstream_filter"
    /\ \/ /\ pc' = [pc EXCEPT ![r] = "logging"]
          /\ ended' = [ended EXCEPT ![r] = "short_circuit"]
          /\ UNCHANGED err
       \/ /\ pc' = [pc EXCEPT ![r] = "upstream_peer"]
          /\ UNCHANGED <<err, ended>>
       \/ /\ PhaseFails(r, NewError("ReadError", 0, "Internal"))
          /\ UNCHANGED ended
    /\ UNCHANGED <<processing, accepted, ctx, logged, nAccepts, nLoggings>>
    /\ UNCHANGED nonServerVars

\* upstream_peer, lines 482-487: a peer, or new_internal_error(503, ..).
UpstreamPeer(r) ==
    /\ pc[r] = "upstream_peer"
    /\ \/ /\ pc' = [pc EXCEPT ![r] = "upstream_request_filter"]
          /\ UNCHANGED err
       \/ PhaseFails(r, NewInternalError(503))
       \/ PhaseFails(r, NewError("ConnectError", 0, "Upstream"))
    /\ UNCHANGED <<processing, accepted, ctx, logged, ended, nAccepts, nLoggings>>
    /\ UNCHANGED nonServerVars

\* connected_to_upstream and upstream_request_filter, lines 489-533, then the
\* upstream I/O.
UpstreamRequestFilter(r) ==
    /\ pc[r] = "upstream_request_filter"
    /\ \/ /\ pc' = [pc EXCEPT ![r] = "upstream_response_filter"]
          /\ UNCHANGED err
       \/ \E e \in PhaseErrors : PhaseFails(r, e)
    /\ UNCHANGED <<processing, accepted, ctx, logged, ended, nAccepts, nLoggings>>
    /\ UNCHANGED nonServerVars

\* The statuses an upstream answers with.
UpstreamStatuses == {200, 404}

\* An upstream_response_filter that records the status of every header.
StatusAfterUpstreamResponseLast(status, upstream_status) == upstream_status

\* upstream_response_filter, lines 540-542: first writer wins.
StatusAfterUpstreamResponse(status, upstream_status) ==
    IF status = 0 THEN upstream_status ELSE status

UpstreamResponseFilter(r) ==
    /\ pc[r] = "upstream_response_filter"
    /\ \E s \in UpstreamStatuses :
        ctx' = [ctx EXCEPT ![r].status = StatusAfterUpstreamResponse(@, s)]
    /\ pc' = [pc EXCEPT ![r] = "response_body_filter"]
    /\ UNCHANGED <<processing, accepted, err, logged, ended, nAccepts, nLoggings>>
    /\ UNCHANGED nonServerVars

\* upstream_response_body_filter, lines 550-560, until the end of the stream
\* or an error while the body is relayed.
ResponseBodyFilter(r) ==
    /\ pc[r] = "response_body_filter"
    /\ \/ /\ pc' = [pc EXCEPT ![r] = "logging"]
          /\ ended' = [ended EXCEPT ![r] = "normal"]
          /\ UNCHANGED err
       \/ /\ \E e \in PhaseErrors : PhaseFails(r, e)
          /\ UNCHANGED ended
    /\ UNCHANGED <<processing, accepted, ctx, logged, nAccepts, nLoggings>>
    /\ UNCHANGED nonServerVars

\* fail_to_proxy, lines 573-620: the error's code becomes the status.
FailToProxy(r) ==
    /\ pc[r] = "fail_to_proxy"
    /\ ctx' = [ctx EXCEPT ![r].status = ErrorCode(err[r])]
    /\ ended' = [ended EXCEPT ![r] = "error"]
    /\ pc' = [pc EXCEPT ![r] = "logging"]
    /\ UNCHANGED <<processing, accepted, err, logged, nAccepts, nLoggings>>
    /\ UNCHANGED nonServerVars

\* The status of the response written downstream, when one was written.
WrittenStatuses == {0, 200, 401}

\* logging, lines 626-630: the status is filled in when none is recorded.
StatusAfterLogging(status, written) ==
    IF status = 0 THEN written ELSE status

\* logging, lines 621-635; the State is destroyed after it.
Logging(r) ==
    /\ pc[r] = "logging"
    /\ processing' = ProcessingAfterLogging(processing)
    /\ \E w \in WrittenStatuses :
        ctx' = [ctx EXCEPT ![r].status = StatusAfterLogging(@, w)]
    /\ logged' = [logged EXCEPT ![r] = @ + 1]
    /\ nLoggings' = nLoggings + 1
    /\ err' = [err EXCEPT ![r] = NoError]
    /\ pc' = [pc EXCEPT ![r] = "done"]
    /\ UNCHANGED <<accepted, ended, nAccepts>>
    /\ UNCHANGED nonServerVars

\* The phases at whose suspension points the runtime can drop the request's
\* task: the State is destroyed and no further hook runs.
CancelPoints ==
    {"rf_serve", "proxy_upstream_filter", "upstream_peer",
     "upstream_request_filter", "response_body_filter", "fail_to_proxy"}

Cancel(r) ==
    /\ pc[r] \in CancelPoints
    /\ pc' = [pc EXCEPT ![r] = "done"]
    /\ ended' = [ended EXCEPT ![r] = "cancelled"]
    /\ err' = [err EXCEPT ![r] = NoError]
    /\ ctx' = [ctx EXCEPT ![r] = NewCtx]
    /\ UNCHANGED <<processing, accepted, logged, nAccepts, nLoggings>>
    /\ UNCHANGED nonServerVars

\* One step of one request.
RequestStep(r) ==
    \/ RequestFilterAccept(r)
    \/ RequestFilterCount(r)
    \/ RequestFilterServe(r)
    \/ ProxyUpstreamFilter(r)
    \/ UpstreamPeer(r)
    \/ UpstreamRequestFilter(r)
    \/ UpstreamResponseFilter(r)
    \/ ResponseBodyFilter(r)
    \/ FailToProxy(r)
    \/ Logging(r)

NextServer ==
    \/ \E r \in Requests : RequestStep(r)
    \/ \E r \in Requests : ReadRequestFails(r)
    \/ \E r \in Requests : Cancel(r)


(***************************************************************************)
(* plugin/limit.rs                                                         *)
(***************************************************************************)

\* LimitTag
LimitTags == {"Ip", "RequestHeader", "Cookie", "Query"}

\* The requests: the value each carries for the cookie, the header and the
\* query parameter a Limiter is configured with, and the client ip. The
\* first is the session of the tests (deviceId=abc, X-Uuid: 138q71, key=1,
\* X-Forwarded-For: 1.1.1.1); the others lack some of the three.
LimitRequests ==
    { [Cookie |-> "abc", RequestHeader |-> "138q71", Query |-> "1", Ip |-> "1.1.1.1"],
      [Cookie |-> "xyz", RequestHeader |-> "", Query |-> "", Ip |-> "1.1.1.1"],
      [Cookie |-> "", RequestHeader |-> "138q71", Query |-> "", Ip |-> "2.2.2.2"] }

\* The keys an Inflight counts: any string, the empty one included.
LimitKeys == {"", "abc", "xyz", "138q71", "1", "1.1.1.1", "2.2.2.2"}

\* The chains of limit plugins a location is configured with, by tag.
LimitChains ==
    { <<"Cookie">>, <<"Ip">>, <<"Query", "Ip">>, <<"RequestHeader", "Cookie">> }

\* Limiter::new, lines 63-69: tag and max; the Inflight starts empty.
NewLimiter(tag, max) == [tag |-> tag, max |-> max]

\* Inflight::new(): every key counts 0.
NewInflight == [k \in LimitKeys |-> 0]

\* A Guard of the Inflight of the plugin at a position, for a key.
NewGuard(i, key) == [plugin |-> i, key |-> key]

\* Option<Guard>::None
NoGuard == [plugin |-> 0, key |-> ""]

\* State::default()
NewLimitCtx == [guard |-> NoGuard, client_ip |-> NoneVal]

\* Inflight::incr(key, 1): the count of the key goes up by one; the Guard
\* and the new count are returned.
InflightIncr(tables, i, key) == [tables EXCEPT ![i][key] = @ + 1]

\* Drop of a Guard: the count of its key goes down by one. Dropping None
\* does nothing.
GuardDrop(tables, g) ==
    IF g = NoGuard THEN tables ELSE [tables EXCEPT ![g.plugin][g.key] = @ - 1]

\* incr, lines 74-91: the key of the request for the Limiter's tag.
KeyOf(tag, req) ==
    CASE tag = "Query" -> req.Query
      [] tag = "RequestHeader" -> req.RequestHeader
      [] tag = "Cookie" -> req.Cookie
      [] OTHER -> req.Ip

\* incr, lines 86-90: only the Ip tag records the client ip in the State.
ClientIpAfterKey(tag, key, client_ip) ==
    IF tag \in {"Query", "RequestHeader", "Cookie"} THEN client_ip ELSE key

\* A Limiter that counts the empty key like any other.
KeyIsEmptyNever(key) == FALSE

\* incr, line 92: key.is_empty()
KeyIsEmpty(key) == key = ""

\* A Limiter that admits one request more than max.
ExceedsOffByOne(value, max) == value > max + 1

\* incr, line 96: value > self.max
Exceeds(value, max) == value > max

\* The requests whose State holds the guard of a plugin for a key.
Holders(i, key) == {r \in Requests : lctx[r].guard = NewGuard(i, key)}

InitLimit ==
    /\ \E tags \in LimitChains : \E max \in 1..MaxLimit :
        lchain = [i \in DOMAIN tags |-> NewLimiter(tags[i], max)]
    /\ inflight = [i \in 1..2 |-> NewInflight]
    /\ lreq = [r \in Requests |-> NoneVal]
    /\ lpc = [r \in Requests |-> "idle"]
    /\ lidx = [r \in Requests |-> 0]
    /\ lguard = [r \in Requests |-> NoGuard]
    /\ lvalue = [r \in Requests |-> 0]
    /\ lctx = [r \in Requests |-> NewLimitCtx]
    /\ lresult = [r \in Requests |-> 0]
    /\ lfull = [r \in Requests |-> FALSE]
    /\ ladmitted = [r \in Requests |-> {}]

\* A location without a limit plugin.
InitNoLimit ==
    /\ lchain = << >>
    /\ inflight = [i \in 1..2 |-> NewInflight]
    /\ lreq = [r \in Requests |-> NoneVal]
    /\ lpc = [r \in Requests |-> "idle"]
    /\ lidx = [r \in Requests |-> 0]
    /\ lguard = [r \in Requests |-> NoGuard]
    /\ lvalue = [r \in Requests |-> 0]
    /\ lctx = [r \in Requests |-> NewLimitCtx]
    /\ lresult = [r \in Requests |-> 0]
    /\ lfull = [r \in Requests |-> FALSE]
    /\ ladmitted = [r \in Requests |-> {}]

\* A request arrives with a new State and request_filter runs the plugins of
\* the chain, the first one first.
LimitArrive(r) ==
    /\ lpc[r] = "idle"
    /\ \E q \in LimitRequests : lreq' = [lreq EXCEPT ![r] = q]
    /\ lpc' = [lpc EXCEPT ![r] = "chain"]
    /\ lidx' = [lidx EXCEPT ![r] = 1]
    /\ UNCHANGED <<lchain, inflight, lguard, lvalue, lctx, lresult, lfull, ladmitted>>
    /\ UNCHANGED nonLimitVars

\* handle returned Ok(false): the next plugin of the chain runs, and after
\* the last one the request is proxied.
PluginContinues(r) ==
    IF lidx[r] < Len(lchain)
        THEN /\ lidx' = [lidx EXCEPT ![r] = @ + 1]
             /\ lpc' = [lpc EXCEPT ![r] = "chain"]
        ELSE /\ lpc' = [lpc EXCEPT ![r] = "proxy"]
             /\ UNCHANGED lidx

\* incr, lines 74-95: the key; an empty key returns Ok(()); else the count
\* of the key is incremented.
LimiterIncr(r) ==
    /\ lpc[r] = "chain"
    /\ LET i == lidx[r]
           limiter == lchain[i]
           key == KeyOf(limiter.tag, lreq[r])
       IN  /\ lctx' = [lctx EXCEPT ![r].client_ip =
                            ClientIpAfterKey(limiter.tag, key, @)]
           /\ IF KeyIsEmpty(key)
                THEN /\ PluginContinues(r)
                     /\ UNCHANGED <<inflight, lguard, lvalue, lfull>>
                ELSE /\ inflight' = InflightIncr(inflight, i, key)
                     /\ lguard' = [lguard EXCEPT ![r] = NewGuard(i, key)]
                     /\ lvalue' = [lvalue EXCEPT ![r] = inflight'[i][key]]
                     /\ lfull' = [lfull EXCEPT ![r] =
                                    Cardinality(Holders(i, key)) >= limiter.max]
                     /\ lpc' = [lpc EXCEPT ![r] = "check"]
                     /\ UNCHANGED lidx
    /\ UNCHANGED <<lchain, lreq, lresult, ladmitted>>
    /\ UNCHANGED nonLimitVars

\* A Limiter whose rejected request keeps its increment.
LimiterCheckLeaky(r) ==
    /\ lpc[r] = "check"
    /\ IF Exceeds(lvalue[r], lchain[lidx[r]].max)
         THEN /\ lresult' = [lresult EXCEPT ![r] = 429]
              /\ lpc' = [lpc EXCEPT ![r] = "failing"]
              /\ UNCHANGED <<inflight, lidx, lctx, ladmitted>>
         ELSE /\ inflight' = GuardDrop(inflight, lctx[r].guard)
              /\ lctx' = [lctx EXCEPT ![r].guard = lguard[r]]
              /\ ladmitted' = [ladmitted EXCEPT ![r] =
                    @ \cup {[plugin |-> lidx[r], key |-> lguard[r].key,
                             value |-> lvalue[r]]}]
              /\ PluginContinues(r)
              /\ UNCHANGED lresult
    /\ lguard' = [lguard EXCEPT ![r] = NoGuard]
    /\ lvalue' = [lvalue EXCEPT ![r] = 0]
    /\ UNCHANGED <<lchain, lreq, lfull>>
    /\ UNCHANGED nonLimitVars

\* incr, lines 96-103, and handle, lines 118-121. Over max: Err(Exceed), the
\* local guard is dropped, and handle fails with 429. Else ctx.guard =
\* Some(guard): the guard the State held before is dropped.
LimiterCheck(r) ==
    /\ lpc[r] = "check"
    /\ IF Exceeds(lvalue[r], lchain[lidx[r]].max)
         THEN /\ inflight' = GuardDrop(inflight, lguard[r])
              /\ lresult' = [lresult EXCEPT ![r] = 429]
              /\ lpc' = [lpc EXCEPT ![r] = "failing"]
              /\ UNCHANGED <<lidx, lctx, ladmitted>>
         ELSE /\ inflight' = GuardDrop(inflight, lctx[r].guard)
              /\ lctx' = [lctx EXCEPT ![r].guard = lguard[r]]
              /\ ladmitted' = [ladmitted EXCEPT ![r] =
                    @ \cup {[plugin |-> lidx[r], key |-> lguard[r].key,
                             value |-> lvalue[r]]}]
              /\ PluginContinues(r)
              /\ UNCHANGED lresult
    /\ lguard' = [lguard EXCEPT ![r] = NoGuard]
    /\ lvalue' = [lvalue EXCEPT ![r] = 0]
    /\ UNCHANGED <<lchain, lreq, lfull>>
    /\ UNCHANGED nonLimitVars

\* The State is destroyed: the guard it holds is dropped.
DropState(r) ==
    /\ inflight' = GuardDrop(inflight, lctx[r].guard)
    /\ lctx' = [lctx EXCEPT ![r] = NewLimitCtx]

\* The request ends: fail_to_proxy for a failed one, the logging hook, and
\* the State is destroyed.
LimitFinish(r) ==
    /\ lpc[r] \in {"proxy", "failing"}
    /\ DropState(r)
    /\ lpc' = [lpc EXCEPT ![r] = "done"]
    /\ UNCHANGED <<lchain, lreq, lidx, lguard, lvalue, lresult, lfull, ladmitted>>
    /\ UNCHANGED nonLimitVars

\* The task of the request is dropped at a suspension point, between two
\* plugins or while the request is proxied: the State is destroyed.
LimitCancel(r) ==
    /\ lpc[r] \in {"chain", "proxy"}
    /\ DropState(r)
    /\ lpc' = [lpc EXCEPT ![r] = "cancelled"]
    /\ UNCHANGED <<lchain, lreq, lidx, lguard, lvalue, lresult, lfull, ladmitted>>
    /\ UNCHANGED nonLimitVars

\* The task of a request that has ended takes the next request of its
\* connection, or of a new one: new_ctx gives it a new State.
LimitNextRequest(r) ==
    /\ lpc[r] \in {"done", "cancelled"}
    /\ lpc' = [lpc EXCEPT ![r] = "idle"]
    /\ lreq' = [lreq EXCEPT ![r] = NoneVal]
    /\ lidx' = [lidx EXCEPT ![r] = 0]
    /\ lresult' = [lresult EXCEPT ![r] = 0]
    /\ lfull' = [lfull EXCEPT ![r] = FALSE]
    /\ ladmitted' = [ladmitted EXCEPT ![r] = {}]
    /\ UNCHANGED <<lchain, inflight, lguard, lvalue, lctx>>
    /\ UNCHANGED nonLimitVars

NextLimit ==
    \/ \E r \in Requests : LimitArrive(r)
    \/ \E r \in Requests : LimiterIncr(r)
    \/ \E r \in Requests : LimiterCheck(r)
    \/ \E r \in Requests : LimitFinish(r)
    \/ \E r \in Requests : LimitCancel(r)

\* The same with tasks that go on to a next request.
NextLimitKeepAlive ==
    \/ NextLimit
    \/ \E r \in Requests : LimitNextRequest(r)

(***************************************************************************)
(* cache/http_cache.rs: CacheObject, From<Vec<u8>>, From<CacheObject>      *)
(***************************************************************************)

\* The byte values the metas and bodies of the model are made of.
CodecBytes == {7, 255}

\* The byte sequences of at most n bytes.
ByteSeqs(n) == UNION {[1..m -> CodecBytes] : m \in 0..n}

\* CacheObject { meta: (Vec<u8>, Vec<u8>), body: Vec<u8> }
NewCacheObject(meta0, meta1, body) == [meta |-> <<meta0, meta1>>, body |-> body]

\* CacheObject::default()
DefaultCacheObject == NewCacheObject(<< >>, << >>, << >>)

CodecObjects ==
    {NewCacheObject(m0, m1, b) :
        m0 \in ByteSeqs(MaxLen), m1 \in ByteSeqs(MaxLen), b \in ByteSeqs(MaxLen)}

\* len() as u32: n modulo 2^32, computed on the two 16-bit halves.
AsU32(n) == (n % 65536) + 65536 * ((n \div 65536) % 65536)

\* A put_u32 that writes the least significant byte first.
PutU32LittleEndian(n) ==
    <<n % 256, (n \div 256) % 256, (n \div 65536) % 256, (n \div 16777216) % 256>>

\* BytesMut::put_u32: four bytes, big-endian.
PutU32(n) ==
    <<(n \div 16777216) % 256, (n \div 65536) % 256, (n \div 256) % 256, n % 256>>

\* u32::from_be_bytes
FromBeBytes(b) == b[1] * 16777216 + b[2] * 65536 + b[3] * 256 + b[4]

\* value[start..end] with 0-based start and exclusive end.
Slice(value, start, end) == SubSeq(value, start + 1, end)

\* From<CacheObject> for Vec<u8>, lines 68-79.
Encode(value) ==
    PutU32(AsU32(Len(value.meta[1]))) \o PutU32(AsU32(Len(value.meta[2])))
        \o value.meta[1] \o value.meta[2] \o value.body

\* The result of a decoding: an object, or the panic of a slice whose end
\* is past the end of the buffer.
Decoded(obj) == [panic |-> FALSE, obj |-> obj]

DecodePanic == [panic |-> TRUE, obj |-> DefaultCacheObject]

\* From<Vec<u8>> for CacheObject, line 43: value.len() < size_byte
ShortBuffer(value) == Len(value) < 8

\* From<Vec<u8>> for CacheObject, lines 40-64.
Decode(value) ==
    IF ShortBuffer(value) THEN Decoded(DefaultCacheObject)
    ELSE LET meta0_size == FromBeBytes(Slice(value, 0, 4))
             meta1_size == FromBeBytes(Slice(value, 4, 8))
             end0 == 8 + meta0_size
             end1 == end0 + meta1_size
         IN  IF end0 > Len(value) \/ end1 > Len(value) THEN DecodePanic
             ELSE Decoded(NewCacheObject(Slice(value, 8, end0),
                                         Slice(value, end0, end1),
                                         Slice(value, end1, Len(value))))

\* Nothing was decoded yet.
NoOutput == [panic |-> FALSE, obj |-> DefaultCacheObject]

InitCodec ==
    /\ cobj \in CodecObjects
    /\ cbuf = << >>
    /\ cout = NoOutput
    /\ cpc = "new"

\* The state of the codec while another part is looked at.
InitNoCodec ==
    /\ cobj = DefaultCacheObject
    /\ cbuf = << >>
    /\ cout = NoOutput
    /\ cpc = "new"

\* let buf: Vec<u8> = data.into()
CodecEncode ==
    /\ cpc = "new"
    /\ cbuf' = Encode(cobj)
    /\ cpc' = "encoded"
    /\ UNCHANGED <<cobj, cout>>
    /\ UNCHANGED nonCodecVars

\* The buffer is cut short, as the file of an interrupted write is.
CodecTruncate ==
    /\ cpc \in {"encoded", "truncated"}
    /\ cbuf # << >>
    /\ cbuf' = SubSeq(cbuf, 1, Len(cbuf) - 1)
    /\ cpc' = "truncated"
    /\ UNCHANGED <<cobj, cout>>
    /\ UNCHANGED nonCodecVars

\* CacheObject::from(buf)
CodecDecode ==
    /\ cpc \in {"encoded", "truncated"}
    /\ cout' = Decode(cbuf)
    /\ cpc' = IF cpc = "encoded" THEN "decoded" ELSE "decoded_truncated"
    /\ UNCHANGED <<cobj, cbuf>>
    /\ UNCHANGED nonCodecVars

NextCodec ==
    \/ CodecEncode
    \/ CodecTruncate
    \/ CodecDecode

(***************************************************************************)
(* cache/file.rs: FileCache, a tinyufo in front of one file per key        *)
(***************************************************************************)

CacheKeys == {"key", "other"}

\* The objects that are put: the empty one, whose encoding is 8 bytes long,
\* and one with two metas and a body.
CacheValues == {DefaultCacheObject, NewCacheObject(<<7>>, <<255>>, <<7>>)}

\* The callers that may be inside put at the same time.
Callers == {"a", "b"}

\* Option<CacheObject>, and the panic of a decoding.
None == [kind |-> "none", obj |-> DefaultCacheObject]

Some(obj) == [kind |-> "some", obj |-> obj]

Panicked == [kind |-> "panic", obj |-> DefaultCacheObject]

\* A file of the directory.
NoFile == [exists |-> FALSE, buf |-> << >>]

File(buf) == [exists |-> TRUE, buf |-> buf]

\* A caller that is not inside put.
NoPut == [pc |-> "idle", key |-> "", data |-> DefaultCacheObject, overlapped |-> FALSE]

\* new_file_cache, lines 30-42: an empty tinyufo over the directory.
NewTinyUfo == [k \in CacheKeys |-> None]

\* The lengths at which a failed write of the buffer may stop: nothing
\* written, a part of the lengths, the lengths alone, all but the last byte.
PartialLengths(buf) == {n \in {0, 7, 8, Len(buf) - 1} : n < Len(buf)}

\* What fs::write can leave: the whole buffer, or, when it fails, the file as
\* it was or a part of the buffer.
FsWrite(old, buf) ==
    {[ok |-> TRUE, file |-> File(buf)], [ok |-> FALSE, file |-> old]}
        \cup {[ok |-> FALSE, file |-> File(SubSeq(buf, 1, n))] : n \in PartialLengths(buf)}

\* A length test that lets files of 4 to 7 bytes through.
ShortFileOfFour(buf) == Len(buf) < 4

\* A length test that takes the 8 bytes of an empty object for a short file.
ShortFileOrEmpty(buf) == Len(buf) <= 8

\* FileCache::get, line 56: buf.len() < 8
ShortFile(buf) == Len(buf) < 8

\* A get that never reads the file: a cache of the memory tier alone.
FileCacheGetFileNever(key) == None

\* FileCache::get, lines 52-60: the object of the file of the key.
FileCacheGetFile(key) ==
    IF ~directory[key].exists THEN None
    ELSE IF ShortFile(directory[key].buf) THEN None
    ELSE LET d == Decode(directory[key].buf)
         IN  IF d.panic THEN Panicked ELSE Some(d.obj)

\* FileCache::get, lines 48-61.
FileCacheGet(key) ==
    IF cache[key].kind = "some" THEN cache[key] ELSE FileCacheGetFile(key)

\* The other callers that are inside a put of the key.
PutsInProgress(c, key) ==
    {o \in Callers \ {c} : puts[o].pc = "write" /\ puts[o].key = key}

\* No get has just returned.
NoGet == [key |-> "", result |-> None]

\* No get has returned yet on an instance that was just made.
NewInstance == [key |-> "", result |-> [kind |-> "new", obj |-> DefaultCacheObject]]

\* In settled: the file of the key was removed and no put of the key
\* started since.
Removed == [kind |-> "removed", obj |-> DefaultCacheObject]

\* What fs::remove_file can do: remove a file that is there, or fail.
FsRemoveFile(old) ==
    {[ok |-> FALSE, file |-> old]}
        \cup (IF old.exists THEN {[ok |-> TRUE, file |-> NoFile]} ELSE {})

InitCache ==
    /\ directory = [k \in CacheKeys |-> NoFile]
    /\ cache = NewTinyUfo
    /\ puts = [c \in Callers |-> NoPut]
    /\ got = NoGet
    /\ settled = [k \in CacheKeys |-> None]

\* FileCache::get
Get(key) ==
    /\ got' = [key |-> key, result |-> FileCacheGet(key)]
    /\ UNCHANGED <<directory, cache, puts, settled>>
    /\ UNCHANGED nonCacheVars

\* FileCache::put, line 69: the object is put in the tinyufo first.
FileCachePut(c, key, data) ==
    /\ cache' = [cache EXCEPT ![key] = Some(data)]
    /\ puts' = [o \in Callers |->
                  IF o = c
                  THEN [pc |-> "write", key |-> key, data |-> data,
                        overlapped |-> PutsInProgress(c, key) # {}]
                  ELSE IF o \in PutsInProgress(c, key)
                  THEN [puts[o] EXCEPT !.overlapped = TRUE]
                  ELSE puts[o]]
    /\ settled' = [settled EXCEPT ![key] = None]
    /\ got' = NoGet
    /\ UNCHANGED directory

\* FileCache::put, lines 70-75: the encoding is written to the file, with
\* the outcome w of fs::write.
FileCacheWrite(c, w) ==
    /\ directory' = [directory EXCEPT ![puts[c].key] = w.file]
    /\ settled' = [settled EXCEPT ![puts[c].key] =
                      IF w.ok /\ ~puts[c].overlapped
                      THEN Some(puts[c].data) ELSE None]
    /\ puts' = [puts EXCEPT ![c] = NoPut]
    /\ got' = NoGet
    /\ UNCHANGED cache

\* FileCache::remove, lines 78-85: the file is removed, with the outcome rm
\* of fs::remove_file; the tinyufo entry stays.
FileCacheRemove(key, rm) ==
    /\ directory' = [directory EXCEPT ![key] = rm.file]
    /\ settled' = [settled EXCEPT ![key] =
                      IF ~rm.ok THEN @
                      ELSE IF \E c \in Callers : puts[c].pc = "write" /\ puts[c].key = key
                      THEN None ELSE Removed]
    /\ got' = NoGet
    /\ UNCHANGED <<cache, puts>>

\* The tinyufo drops an entry to make room.
TinyUfoEvict(key) ==
    /\ cache[key].kind = "some"
    /\ cache' = [cache EXCEPT ![key] = None]
    /\ got' = NoGet
    /\ UNCHANGED <<directory, puts, settled>>

\* FileCache::put, up to the await of fs::write.
PutCache(c, key, data) ==
    /\ puts[c].pc = "idle"
    /\ FileCachePut(c, key, data)
    /\ UNCHANGED nonCacheVars

\* FileCache::put, from the await of fs::write.
PutWrite(c) ==
    /\ puts[c].pc = "write"
    /\ \E w \in FsWrite(directory[puts[c].key], Encode(puts[c].data)) :
        FileCacheWrite(c, w)
    /\ UNCHANGED nonCacheVars

\* FileCache::remove
Remove(key) ==
    /\ \E rm \in FsRemoveFile(directory[key]) : FileCacheRemove(key, rm)
    /\ UNCHANGED nonCacheVars

\* The tinyufo of the file cache drops an entry.
Evict(key) ==
    /\ TinyUfoEvict(key)
    /\ UNCHANGED nonCacheVars

\* The process ends and a new FileCache is made over the same directory.
Restart ==
    /\ cache' = NewTinyUfo
    /\ puts' = [c \in Callers |-> NoPut]
    /\ settled' = [k \in CacheKeys |->
                     IF \E c \in Callers : puts[c].pc = "write" /\ puts[c].key = k
                     THEN None ELSE settled[k]]
    /\ got' = NewInstance
    /\ UNCHANGED directory
    /\ UNCHANGED nonCacheVars

NextCache ==
    \/ \E key \in CacheKeys : Get(key)
    \/ \E c \in Callers, key \in CacheKeys, data \in CacheValues : PutCache(c, key, data)
    \/ \E c \in Callers : PutWrite(c)
    \/ \E key \in CacheKeys : Remove(key)
    \/ \E key \in CacheKeys : Evict(key)
    \/ Restart

(***************************************************************************)
(* cache/http_cache.rs: HttpCache, ObjectMissHandler, purge, update_meta   *)
(***************************************************************************)

\* The combined hash of the cache key of the requests.
HttpKey == "key"

\* The callers of the storage: the task of the miss handler and the task
\* that updates the meta.
MissCaller == "a"

MetaCaller == "b"

\* CacheMeta::serialize: the two parts of a serialized meta.
BinaryMetas == {<<<<7>>, <<255>>>>, <<<<255>>, << >>>>}

\* The pieces of body that write_body is given.
BodyChunks == {<<255>>}

\* No miss handler was made.
NoMiss == [pc |-> "none", key |-> "", meta |-> <<<< >>, << >>>>, body |-> << >>]

\* No purge has just returned.
NoPurge == [key |-> "", result |-> FALSE, removed |-> FALSE]

\* No update_meta was called.
NoUpdate ==
    [pc |-> "none", key |-> "", meta |-> <<<< >>, << >>>>, before |-> None,
     overlapped |-> FALSE]

\* The update_meta call when another call is made: it is kept while it is
\* writing, and forgotten once it has returned.
UpdateKept == IF updated.pc = "writing" THEN updated ELSE NoUpdate

\* The miss handler when another call is made: it is kept until it has
\* finished or was dropped, and forgotten after that.
MissKept == IF miss.pc \in {"open", "finishing"} THEN miss ELSE NoMiss

\* An update_meta that loses the body.
UpdateMetaObjectEmptyBody(obj, meta) == [meta |-> meta, body |-> << >>]

\* HttpCache::update_meta, lines 296-298: obj.meta = meta.serialize()
UpdateMetaObject(obj, meta) == [meta |-> meta, body |-> obj.body]

\* HttpCache::get_miss_handler, lines 262-267.
NewObjectMissHandler(key, meta) ==
    [pc |-> "open", key |-> key, meta |-> meta, body |-> << >>]

\* ObjectMissHandler::finish, lines 196-199.
MissObject(h) == [meta |-> h.meta, body |-> h.body]

\* FileCache::remove, lines 81-84: Ok(None) when the file was removed.
RemoveResult(rm) == [ok |-> rm.ok, value |-> None]

\* HttpCache::purge, lines 280-285.
PurgeResult(r) == IF r.ok THEN r.value.kind = "some" ELSE FALSE

InitHttpCache ==
    /\ miss = NoMiss
    /\ purged = NoPurge
    /\ updated = NoUpdate

\* HttpCache::get_miss_handler
GetMissHandler(key, meta) ==
    /\ miss.pc \in {"none", "finished", "failed", "dropped"}
    /\ miss' = NewObjectMissHandler(key, meta)
    /\ purged' = NoPurge
    /\ updated' = UpdateKept
    /\ UNCHANGED cacheVars
    /\ UNCHANGED nonHttpCacheVars

\* A write_body that streams what it has to the storage.
WriteBodyThrough(data) ==
    /\ miss.pc = "open"
    /\ Len(miss.body) + Len(data) <= MaxBody
    /\ miss' = [miss EXCEPT !.body = @ \o data]
    /\ cache' = [cache EXCEPT ![miss.key] = Some([meta |-> miss.meta, body |-> miss.body \o data])]
    /\ purged' = NoPurge
    /\ updated' = UpdateKept
    /\ UNCHANGED <<directory, puts, got, settled>>
    /\ UNCHANGED nonHttpCacheVars

\* ObjectMissHandler::write_body
WriteBody(data) ==
    /\ miss.pc = "open"
    /\ Len(miss.body) + Len(data) <= MaxBody
    /\ miss' = [miss EXCEPT !.body = @ \o data]
    /\ purged' = NoPurge
    /\ updated' = UpdateKept
    /\ UNCHANGED cacheVars
    /\ UNCHANGED nonHttpCacheVars

\* ObjectMissHandler::finish, up to the await of fs::write in FileCache::put.
Finish ==
    /\ miss.pc = "open"
    /\ puts[MissCaller].pc = "idle"
    /\ FileCachePut(MissCaller, miss.key, MissObject(miss))
    /\ miss' = [miss EXCEPT !.pc = "finishing"]
    /\ purged' = NoPurge
    /\ updated' = UpdateKept
    /\ UNCHANGED nonHttpCacheVars

\* ObjectMissHandler::finish, from the await of fs::write.
FinishWrite ==
    /\ miss.pc = "finishing"
    /\ \E w \in FsWrite(directory[miss.key], Encode(MissObject(miss))) :
        /\ FileCacheWrite(MissCaller, w)
        /\ miss' = [miss EXCEPT !.pc = IF w.ok THEN "finished" ELSE "failed"]
    /\ purged' = NoPurge
    /\ updated' = UpdateKept
    /\ UNCHANGED nonHttpCacheVars

\* The miss handler is dropped before finish: the request was cancelled.
\* The record keeps what the handler had accumulated.
DropMissHandler ==
    /\ miss.pc = "open"
    /\ miss' = [miss EXCEPT !.pc = "dropped"]
    /\ purged' = NoPurge
    /\ updated' = UpdateKept
    /\ UNCHANGED cacheVars
    /\ UNCHANGED nonHttpCacheVars

\* HttpCache::purge
Purge(key) ==
    /\ \E rm \in FsRemoveFile(directory[key]) :
        /\ FileCacheRemove(key, rm)
        /\ purged' = [key |-> key, result |-> PurgeResult(RemoveResult(rm)),
                      removed |-> rm.ok]
    /\ updated' = UpdateKept
    /\ miss' = MissKept
    /\ UNCHANGED nonHttpCacheVars

\* The tinyufo of the storage drops the entry of the key.
HttpEvict(key) ==
    /\ TinyUfoEvict(key)
    /\ purged' = NoPurge
    /\ updated' = UpdateKept
    /\ miss' = MissKept
    /\ UNCHANGED nonHttpCacheVars

\* HttpCache::update_meta, up to the await of fs::write in FileCache::put.
UpdateMeta(key, meta) ==
    /\ updated.pc # "writing"
    /\ puts[MetaCaller].pc = "idle"
    /\ LET obj == FileCacheGet(key)
           call == [pc |-> "writing", key |-> key, meta |-> meta, before |-> obj,
                    overlapped |-> FALSE]
       IN  IF obj.kind = "some"
           THEN /\ FileCachePut(MetaCaller, key, UpdateMetaObject(obj.obj, meta))
                /\ updated' = call
           ELSE /\ updated' = [call EXCEPT !.pc = IF obj.kind = "none"
                                                  THEN "invalid" ELSE "panic"]
                /\ UNCHANGED cacheVars
    /\ purged' = NoPurge
    /\ miss' = MissKept
    /\ UNCHANGED nonHttpCacheVars

\* HttpCache::update_meta, from the await of fs::write.
UpdateMetaWrite ==
    /\ updated.pc = "writing"
    /\ \E w \in FsWrite(directory[updated.key], Encode(puts[MetaCaller].data)) :
        /\ FileCacheWrite(MetaCaller, w)
        /\ updated' = [updated EXCEPT !.pc = IF w.ok THEN "ok" ELSE "err",
                                      !.overlapped = puts[MetaCaller].overlapped]
    /\ purged' = NoPurge
    /\ miss' = MissKept
    /\ UNCHANGED nonHttpCacheVars

NextHttpCache ==
    \/ \E meta \in BinaryMetas : GetMissHandler(HttpKey, meta)
    \/ \E data \in BodyChunks : WriteBody(data)
    \/ Finish
    \/ FinishWrite
    \/ DropMissHandler
    \/ Purge(HttpKey)
    \/ \E meta \in BinaryMetas : UpdateMeta(HttpKey, meta)
    \/ UpdateMetaWrite
    \/ HttpEvict(HttpKey)

(***************************************************************************)
(* cache/http_cache.rs: CompleteHit                                        *)
(***************************************************************************)

\* The bodies of the objects that are hit.
HitBodies == UNION {[1..m -> CodecBytes] : m \in 0..MaxBody}

\* The start of a seek.
SeekStarts == 0..(MaxBody + 1)

\* Option<usize>::None as the end of a seek.
NoEnd == -1

\* The end of a seek.
SeekEnds == {NoEnd} \cup 0..(MaxBody + 1)

\* std::cmp::min
Min(a, b) == IF a < b THEN a ELSE b

\* HttpCache::lookup, lines 228-234.
NewCompleteHit(body) ==
    [body |-> body, done |-> FALSE, range_start |-> 0, range_end |-> Len(body)]

\* No seek was called.
NoSeek == [start |-> 0, end |-> NoEnd, result |-> "none"]

\* Option<Bytes> as the result of a read, and the panic of a slice.
Unread == [kind |-> "unread", bytes |-> << >>]

NoBytes == [kind |-> "none", bytes |-> << >>]

SomeBytes(bytes) == [kind |-> "some", bytes |-> bytes]

SlicePanic == [kind |-> "panic", bytes |-> << >>]

\* CompleteHit::seek, line 120: start >= self.body.len()
SeekOutOfRange(h, start) == start >= Len(h.body)

\* A seek that leaves the handle read when it was.
CompleteHitSeekKeepsDone(h, start, end) ==
    [h EXCEPT !.range_start = start,
              !.range_end = IF end # NoEnd THEN Min(Len(h.body), end) ELSE @]

\* CompleteHit::seek, lines 128-134.
CompleteHitSeek(h, start, end) ==
    [h EXCEPT !.range_start = start,
              !.range_end = IF end # NoEnd THEN Min(Len(h.body), end) ELSE @,
              !.done = FALSE]

\* CompleteHit::get, lines 109-116: what is returned.
CompleteHitGet(h) ==
    IF h.done THEN NoBytes
    ELSE IF h.range_start > h.range_end \/ h.range_end > Len(h.body) THEN SlicePanic
    ELSE SomeBytes(Slice(h.body, h.range_start, h.range_end))

InitHit ==
    /\ hit \in {NewCompleteHit(body) : body \in HitBodies}
    /\ hseek = NoSeek
    /\ hout = Unread

\* The hit handler while another part is looked at.
InitNoHit ==
    /\ hit = NewCompleteHit(<< >>)
    /\ hseek = NoSeek
    /\ hout = Unread

\* CompleteHit::seek
Seek(start, end) ==
    /\ IF SeekOutOfRange(hit, start)
       THEN /\ hseek' = [start |-> start, end |-> end, result |-> "invalid"]
            /\ UNCHANGED <<hit, hout>>
       ELSE /\ hseek' = [start |-> start, end |-> end, result |-> "ok"]
            /\ hit' = CompleteHitSeek(hit, start, end)
            /\ hout' = Unread
    /\ UNCHANGED nonHitVars

\* CompleteHit::read_body
ReadBody ==
    /\ hout.kind # "panic"
    /\ hout' = CompleteHitGet(hit)
    /\ hit' = [hit EXCEPT !.done = TRUE]
    /\ UNCHANGED hseek
    /\ UNCHANGED nonHitVars

NextHit ==
    \/ \E start \in SeekStarts, end \in SeekEnds : Seek(start, end)
    \/ ReadBody

(***************************************************************************)
(* proxy/server.rs: the locations of a server, serve_stats_admin and       *)
(* request_filter for one request                                          *)
(***************************************************************************)

\* An Option as a sequence of at most one element.
OptNone == << >>

OptSome(x) == <<x>>

\* A path as the sequence of its segments: "/" is << >>, "/api/x" is
\* <<"api", "x">>.
IsPrefix(p, q) == Len(p) <= Len(q) /\ SubSeq(q, 1, Len(p)) = p

\* The locations of the configuration: name, host pattern ("" for any),
\* path prefix, weight.
LocationConfs ==
    { [name |-> "api", host |-> "", path |-> <<"api">>, weight |-> 2],
      [name |-> "any", host |-> "", path |-> << >>, weight |-> 2],
      [name |-> "host", host |-> "b.com", path |-> << >>, weight |-> 2],
      [name |-> "root", host |-> "", path |-> << >>, weight |-> 1] }

\* The sequences of at most n different locations: conf.locations in the
\* order it is iterated.
LocationLists(n) ==
    {l \in UNION {[1..m -> LocationConfs] : m \in 0..n} :
        \A i, j \in DOMAIN l : i # j => l[i] # l[j]}

\* The names a server lists as its locations.
ValidLocations == {{"api", "any", "host", "root"}, {"api", "root"}}

\* Location::matched: the host pattern is empty or equal to the host, and
\* the path starts with the prefix.
Matched(lo, host, path) ==
    /\ lo.host = "" \/ lo.host = host
    /\ IsPrefix(lo.path, path)

\* A sort by descending weight that puts a location before the equal ones
\* that came earlier.
SortByWeightTiesReversed(locations) ==
    LET Ins(t, x) == SelectSeq(t, LAMBDA y : y.weight > x.weight) \o <<x>>
                        \o SelectSeq(t, LAMBDA y : y.weight <= x.weight)
        F[n \in 0..Len(locations)] ==
            IF n = 0 THEN << >> ELSE Ins(F[n - 1], locations[n])
    IN  F[Len(locations)]

\* From<PingapConf>, line 95: locations.sort_by_key(Reverse(get_weight())),
\* a stable sort: each location goes after those of at least its weight.
SortByWeight(locations) ==
    LET Ins(t, x) == SelectSeq(t, LAMBDA y : y.weight >= x.weight) \o <<x>>
                        \o SelectSeq(t, LAMBDA y : y.weight < x.weight)
        F[n \in 0..Len(locations)] ==
            IF n = 0 THEN << >> ELSE Ins(F[n - 1], locations[n])
    IN  F[Len(locations)]

\* From<PingapConf>, lines 101-107: the locations of the server, in the
\* sorted order.
FilterLocations(locations, valid_locations) ==
    SelectSeq(locations, LAMBDA lo : lo.name \in valid_locations)

\* From<PingapConf> and Server::new, lines 90-107 and 211-221.
ServerLocations(conf_locations, valid_locations) ==
    FilterLocations(SortByWeight(conf_locations), valid_locations)

\* The servers: conf_locations and valid_locations are what the locations
\* were made of.
ServerConfs ==
    { [admin |-> a, authorization |-> auth, stats_path |-> sp, admin_path |-> ap,
       conf_locations |-> l, valid_locations |-> v,
       locations |-> ServerLocations(l, v)] :
        a \in BOOLEAN, auth \in {OptNone, OptSome("token")},
        sp \in {OptNone, OptSome(<<"stats">>)},
        ap \in {OptNone, OptSome(<<"admin">>)},
        l \in LocationLists(MaxLocations), v \in ValidLocations }

\* The requests; the Authorization header as scheme and credentials, << >>
\* when there is none.
FilterRequests ==
    { [host |-> h, path |-> p, authorization |-> a] :
        h \in {"a.com", "b.com"},
        p \in {<< >>, <<"api", "x">>, <<"stats">>, <<"admin", "x">>},
        a \in {<< >>, <<"Basic", "token">>, <<"Basic", "other">>} }

\* Server::auth_validate, lines 321-332.
AuthValidate(conf, req) ==
    IF conf.authorization # OptNone
    THEN /\ req.authorization # << >>
         /\ req.authorization = <<"Basic", conf.authorization[1]>>
    ELSE TRUE

\* What request_filter does and returns: the part that decided (kind), the
\* Result (done, continue, err) and the error of an Err, the status and the
\* WWW-Authenticate header of a response the server wrote, whether the admin
\* collaborator was invoked, the name of the location found (lo), the plugins
\* run, the location index recorded.
Outcome(kind, result) ==
    [kind |-> kind, result |-> result, e |-> NoError, status |-> 0,
     www_authenticate |-> FALSE, admin_invoked |-> FALSE, lo |-> "",
     plugins |-> 0, location_index |-> -1]

\* No request_filter has run.
NoOutcome == Outcome("none", "none")

\* ADMIN_SERVE.handle: the collaborator answers, or fails.
AdminServe ==
    { [Outcome("admin", "done") EXCEPT !.admin_invoked = TRUE],
      [Outcome("admin", "err") EXCEPT !.admin_invoked = TRUE,
                                       !.e = NewError("WriteError", 0, "Downstream")] }

\* Server::serve_admin, lines 339-360.
ServeAdmin(conf, req) ==
    IF ~AuthValidate(conf, req)
    THEN { [Outcome("unauthorized", "done") EXCEPT !.status = 401,
                                                   !.www_authenticate = TRUE],
           [Outcome("unauthorized", "err") EXCEPT
                !.e = NewError("WriteError", 0, "Downstream")] }
    ELSE AdminServe

\* A serve_stats_admin that hands the request to the admin before it looks
\* at the stats path.
ServeStatsAdminAdminFirst(conf, req) ==
    IF conf.admin THEN AdminServe
    ELSE IF conf.stats_path # OptNone /\ conf.stats_path[1] = req.path
    THEN {[Outcome("stats", "done") EXCEPT !.status = 200]}
    ELSE IF conf.admin_path # OptNone /\ IsPrefix(conf.admin_path[1], req.path)
    THEN ServeAdmin(conf, req)
    ELSE {}

\* Server::serve_stats_admin, lines 367-389; {} when it gives Ok(false).
ServeStatsAdmin(conf, req) ==
    IF conf.stats_path # OptNone /\ conf.stats_path[1] = req.path
    THEN {[Outcome("stats", "done") EXCEPT !.status = 200]}
    ELSE IF conf.admin THEN AdminServe
    ELSE IF conf.admin_path # OptNone /\ IsPrefix(conf.admin_path[1], req.path)
    THEN ServeAdmin(conf, req)
    ELSE {}

\* request_filter, lines 421-425: the indexes (from 0) of the locations that
\* match, in the order of the list.
MatchedIndexes(conf, req) ==
    {i \in 0..(Len(conf.locations) - 1) :
        Matched(conf.locations[i + 1], req.host, req.path)}

\* The least of a set of numbers that is not empty.
Least(S) == CHOOSE i \in S : \A j \in S : i <= j

\* request_filter, lines 421-425: find gives the first of them; the first
\* of the list when there is none.
LocationFound(conf, req) ==
    conf.locations[1 + (IF MatchedIndexes(conf, req) = {} THEN 0
                        ELSE Least(MatchedIndexes(conf, req)))]

\* The most plugins the chain of a location has.
MaxPlugins == 2

\* Location::exec_proxy_plugins: the chain runs through, or its n-th plugin
\* responds, or its n-th plugin fails.
ExecProxyPlugins ==
    {[result |-> "continue", plugins |-> n, e |-> NoError] : n \in 0..MaxPlugins}
        \cup {[result |-> "done", plugins |-> n, e |-> NoError] : n \in 1..MaxPlugins}
        \cup {[result |-> "err", plugins |-> n, e |-> NewInternalError(429)] : n \in 1..MaxPlugins}

\* A request_filter that records the location before the plugins run.
RequestFilterFromLocationEager(conf, req) ==
    IF MatchedIndexes(conf, req) = {}
    THEN {[Outcome("location", "err") EXCEPT !.e = NewInternalError(500)]}
    ELSE { [Outcome(IF p.result = "continue" THEN "proxy" ELSE "plugin", p.result)
                EXCEPT !.e = p.e, !.plugins = p.plugins,
                       !.lo = LocationFound(conf, req).name,
                       !.location_index = Least(MatchedIndexes(conf, req))] :
             p \in ExecProxyPlugins }

\* A request_filter that goes on with the first location of the list when
\* none matches.
RequestFilterFromLocationDefault(conf, req) ==
    { [Outcome(IF p.result = "continue" THEN "proxy" ELSE "plugin", p.result)
            EXCEPT !.e = p.e, !.plugins = p.plugins,
                   !.lo = IF MatchedIndexes(conf, req) = {} THEN ""
                          ELSE LocationFound(conf, req).name,
                   !.location_index =
                        IF p.result # "continue" THEN -1
                        ELSE IF MatchedIndexes(conf, req) = {} THEN 0
                        ELSE Least(MatchedIndexes(conf, req))] :
         p \in ExecProxyPlugins }

\* A request_filter that does not record the index of the location.
RequestFilterFromLocationUnrecorded(conf, req) ==
    IF MatchedIndexes(conf, req) = {}
    THEN {[Outcome("location", "err") EXCEPT !.e = NewInternalError(500)]}
    ELSE { [Outcome(IF p.result = "continue" THEN "proxy" ELSE "plugin", p.result)
                EXCEPT !.e = p.e, !.plugins = p.plugins,
                       !.lo = LocationFound(conf, req).name,
                       !.location_index = -1] :
             p \in ExecProxyPlugins }

\* request_filter, lines 417-455: the location, the plugins, the index.
RequestFilterFromLocation(conf, req) ==
    IF MatchedIndexes(conf, req) = {}
    THEN {[Outcome("location", "err") EXCEPT !.e = NewInternalError(500)]}
    ELSE { [Outcome(IF p.result = "continue" THEN "proxy" ELSE "plugin", p.result)
                EXCEPT !.e = p.e, !.plugins = p.plugins,
                       !.lo = LocationFound(conf, req).name,
                       !.location_index =
                            IF p.result = "continue"
                            THEN Least(MatchedIndexes(conf, req)) ELSE -1] :
             p \in ExecProxyPlugins }

\* request_filter, lines 412-455.
RequestFilter(conf, req) ==
    IF ServeStatsAdmin(conf, req) # {}
    THEN ServeStatsAdmin(conf, req)
    ELSE RequestFilterFromLocation(conf, req)

\* Server::new_ctx for the one request.
NewFilterCtx == [status |-> 0, location_index |-> -1]

InitFilter ==
    /\ fconf \in ServerConfs
    /\ freq \in FilterRequests
    /\ fpc = "request_filter"
    /\ fctx = NewFilterCtx
    /\ fout = NoOutcome
    /\ fran = {}
    /\ fwritten = 0
    /\ fused = {}

\* The one request while another part is looked at.
InitNoFilter ==
    /\ fconf = [admin |-> FALSE, authorization |-> OptNone, stats_path |-> OptNone,
                admin_path |-> OptNone, conf_locations |-> << >>,
                valid_locations |-> {}, locations |-> << >>]
    /\ freq = [host |-> "", path |-> << >>, authorization |-> << >>]
    /\ fpc = "request_filter"
    /\ fctx = NewFilterCtx
    /\ fout = NoOutcome
    /\ fran = {}
    /\ fwritten = 0
    /\ fused = {}

\* The status of the response header written downstream by the end of
\* request_filter: the server's 200 or 401, the answer of the admin
\* collaborator, the response of the plugin that responded, or none.
WrittenAfterRequestFilter(o) ==
    CASE o.kind \in {"stats", "unauthorized"} -> o.status
      [] o.kind = "admin" /\ o.result = "done" -> 200
      [] o.kind = "plugin" /\ o.result = "done" -> 403
      [] OTHER -> 0

\* request_filter
RequestFilterPhase ==
    /\ fpc = "request_filter"
    /\ \E o \in RequestFilter(fconf, freq) :
        /\ fout' = o
        /\ fctx' = [status |-> IF o.kind = "stats" THEN 200 ELSE 0,
                    location_index |-> o.location_index]
        /\ fpc' = AfterRequestFilter(o.result)
        /\ fwritten' = WrittenAfterRequestFilter(o)
    /\ fran' = fran \cup {"request_filter"}
    /\ UNCHANGED <<fconf, freq, fused>>
    /\ UNCHANGED nonFilterVars

\* Option::unwrap_or_default of the location index: 0 for None.
UnwrapOrDefault(location_index) == IF location_index = -1 THEN 0 ELSE location_index

\* proxy_upstream_filter, line 465, and upstream_peer, line 482:
\* &self.locations[ctx.location_index.unwrap_or_default()], with the phase
\* that takes it.  An index past the list panics: no location is taken.
PhaseLocation(phase, conf, rctx) ==
    LET index == UnwrapOrDefault(rctx.location_index)
    IN  [phase |-> phase, index |-> index,
         lo |-> IF index + 1 \in DOMAIN conf.locations
                THEN conf.locations[index + 1].name ELSE ""]

\* proxy_upstream_filter: a directory or a mock answers inline, or the
\* request goes on to a peer.
ProxyUpstreamFilterPhase ==
    /\ fpc = "proxy_upstream_filter"
    /\ \/ fpc' = "logging" /\ fwritten' = 200
       \/ fpc' = "upstream_peer" /\ UNCHANGED fwritten
    /\ fran' = fran \cup {"proxy_upstream_filter"}
    /\ fused' = fused \cup {PhaseLocation("proxy_upstream_filter", fconf, fctx)}
    /\ UNCHANGED <<fconf, freq, fctx, fout>>
    /\ UNCHANGED nonFilterVars

\* upstream_peer: a peer, or new_internal_error(503, ..).
UpstreamPeerPhase ==
    /\ fpc = "upstream_peer"
    /\ \/ /\ fpc' = "upstream_request_filter"
          /\ UNCHANGED fout
       \/ /\ fpc' = "fail_to_proxy"
          /\ fout' = [fout EXCEPT !.e = NewInternalError(503)]
    /\ fran' = fran \cup {"upstream_peer"}
    /\ fused' = fused \cup {PhaseLocation("upstream_peer", fconf, fctx)}
    /\ UNCHANGED <<fconf, freq, fctx, fwritten>>
    /\ UNCHANGED nonFilterVars

\* upstream_request_filter
UpstreamRequestFilterPhase ==
    /\ fpc = "upstream_request_filter"
    /\ fpc' = "upstream_response_filter"
    /\ fran' = fran \cup {"upstream_request_filter"}
    /\ UNCHANGED <<fconf, freq, fctx, fout, fwritten, fused>>
    /\ UNCHANGED nonFilterVars

\* The status of an interim response header an upstream sends before its
\* final one.
InterimStatus == 100

\* upstream_response_filter, lines 534-548, for a response header of the
\* upstream: an interim one, at most once, or the final one, which is
\* written downstream.
UpstreamResponseFilterPhase ==
    /\ fpc = "upstream_response_filter"
    /\ \/ /\ fctx.status = 0
          /\ fctx' = [fctx EXCEPT !.status = StatusAfterUpstreamResponse(@, InterimStatus)]
          /\ UNCHANGED <<fpc, fwritten>>
       \/ \E s \in UpstreamStatuses :
            /\ fctx' = [fctx EXCEPT !.status = StatusAfterUpstreamResponse(@, s)]
            /\ fwritten' = s
            /\ fpc' = "logging"
    /\ fran' = fran \cup {"upstream_response_filter"}
    /\ UNCHANGED <<fconf, freq, fout, fused>>
    /\ UNCHANGED nonFilterVars

\* fail_to_proxy
FailToProxyPhase ==
    /\ fpc = "fail_to_proxy"
    /\ fctx' = [fctx EXCEPT !.status = ErrorCode(fout.e)]
    /\ fwritten' \in {fwritten, ErrorCode(fout.e)}
    /\ fpc' = "logging"
    /\ fran' = fran \cup {"fail_to_proxy"}
    /\ UNCHANGED <<fconf, freq, fout, fused>>
    /\ UNCHANGED nonFilterVars

\* logging, lines 626-630
LoggingPhase ==
    /\ fpc = "logging"
    /\ fctx' = [fctx EXCEPT !.status = StatusAfterLogging(@, fwritten)]
    /\ fpc' = "done"
    /\ fran' = fran \cup {"logging"}
    /\ UNCHANGED <<fconf, freq, fout, fwritten, fused>>
    /\ UNCHANGED nonFilterVars

NextFilter ==
    \/ RequestFilterPhase
    \/ ProxyUpstreamFilterPhase
    \/ UpstreamPeerPhase
    \/ UpstreamRequestFilterPhase
    \/ UpstreamResponseFilterPhase
    \/ FailToProxyPhase
    \/ LoggingPhase

(***************************************************************************)
(* proxy/server.rs: fail_to_proxy for one error                            *)
(***************************************************************************)

\* The errors fail_to_proxy is called with: an HTTPStatus with the codes the
\* program makes (limit.rs:120, server.rs:428, 484), or another type, from
\* each source.
ErrorSources == {"Upstream", "Downstream", "Internal", "Unset"}

ErrorTypes ==
    {"ConnectError", "WriteError", "ReadError", "ConnectionClosed", "InvalidHTTPHeader"}

FailErrors ==
    {NewError("HTTPStatus", code, s) : code \in {429, 500, 503}, s \in ErrorSources}
        \cup {NewError(t, 0, s) : t \in ErrorTypes, s \in ErrorSources}

\* fail_to_proxy, line 598: StatusCode::from_u16(code).unwrap_or(500); a
\* code outside 100..999 is no StatusCode.
StatusFromU16(code) == IF code >= 100 /\ code <= 999 THEN code ELSE 500

\* The downstream session: the status of the response header written (0:
\* none), whether a header and a body were handed to it, keep-alive.
NewSession == [header |-> 0, header_writes |-> 0, body_writes |-> 0, keepalive |-> TRUE]

\* The State before the error: no status, or the upstream's.
InitFail ==
    /\ perr \in FailErrors
    /\ pctx \in {[status |-> s] : s \in {0, 200}}
    /\ psession = NewSession
    /\ pcode = 0
    /\ ppc = "fail_to_proxy"

\* No error at hand.
InitNoFail ==
    /\ perr = NoError
    /\ pctx = [status |-> 0]
    /\ psession = NewSession
    /\ pcode = 0
    /\ ppc = "fail_to_proxy"

\* fail_to_proxy, lines 562-620: the code of the error, the status recorded,
\* keep-alive off, the header written (the write may fail), the body
\* written, the code returned.
FailToProxyCall ==
    /\ ppc = "fail_to_proxy"
    /\ pctx' = [pctx EXCEPT !.status = StatusFromU16(ErrorCode(perr))]
    /\ \E ok \in BOOLEAN :
        psession' = [header |-> IF ok THEN ErrorCode(perr) ELSE 0,
                     header_writes |-> psession.header_writes + 1,
                     body_writes |-> psession.body_writes + 1,
                     keepalive |-> FALSE]
    /\ pcode' = ErrorCode(perr)
    /\ ppc' = "logging"
    /\ UNCHANGED perr
    /\ UNCHANGED nonFailVars

\* logging, lines 626-630, after fail_to_proxy.
FailLogging ==
    /\ ppc = "logging"
    /\ pctx' = [pctx EXCEPT !.status = StatusAfterLogging(@, psession.header)]
    /\ ppc' = "done"
    /\ UNCHANGED <<perr, psession, pcode>>
    /\ UNCHANGED nonFailVars

NextFail ==
    \/ FailToProxyCall
    \/ FailLogging

(***************************************************************************)
(* acme/validity_checker.rs                                                *)
(***************************************************************************)

\* The most certificates in the list, and the last day of the clock.
MaxCerts == 2

MaxNow == 5

\* new_tls_validity_service, line 91: time_offset, scaled to two days of the
\* clock, the interval of the service being one.
TimeOffset == 2

\* (name, CertificateInfo): not_before and not_after in days of the clock;
\* the last one is valid for an instant, as the one of test_validity_check.
Certificates ==
    {[name |-> n, issuer |-> "pingap", not_before |-> v[1], not_after |-> v[2]] :
        n \in {"a", "b"}, v \in {<<0, 4>>, <<2, 6>>, <<3, 3>>}}

CertificateLists == UNION {[1..m -> Certificates] : m \in 0..MaxCerts}

\* validity_check, line 37: will expire.
WillExpire(cert, time_offset, now) == now > cert.not_after - time_offset

\* validity_check, line 45: not valid yet.
NotValidYet(cert, now) == now < cert.not_before

\* validity_check, lines 30-54: the names of the certificates a message is
\* made for: the first of the list that will expire or is not valid, the
\* loop returning there; none when Ok(()).
ValidityCheck(validity_list, time_offset, now) ==
    LET bad == {i \in DOMAIN validity_list :
                    \/ WillExpire(validity_list[i], time_offset, now)
                    \/ NotValidYet(validity_list[i], now)}
    IN  IF bad = {} THEN {}
        ELSE {validity_list[CHOOSE i \in bad : \A j \in bad : i <= j].name}

\* Result<(), String> of validity_check: Ok(()) and Err(message).
ValidityOk == [ok |-> TRUE, message |-> << >>]

ValidityErr(message) == [ok |-> FALSE, message |-> message]

\* format!, lines 38-41: the text between the values is kept as it is.
WillExpireMessage(cert) ==
    <<cert.name, " cert will be expired, issuer: ", cert.issuer,
      ", expired date: ", cert.not_after>>

\* format!, lines 46-49.
NotValidMessage(cert) ==
    <<cert.name, " cert is not valid, issuer: ", cert.issuer,
      ", valid date: ", cert.not_before>>

\* The two checks of the loop in the other order.
ValidityCheckResultNotValidFirst(validity_list, time_offset, now) ==
    LET Loop[i \in 1..(Len(validity_list) + 1)] ==
            IF i > Len(validity_list) THEN ValidityOk
            ELSE IF NotValidYet(validity_list[i], now)
                 THEN ValidityErr(NotValidMessage(validity_list[i]))
            ELSE IF WillExpire(validity_list[i], time_offset, now)
                 THEN ValidityErr(WillExpireMessage(validity_list[i]))
            ELSE Loop[i + 1]
    IN  Loop[1]

\* validity_check, lines 30-54: the loop over the list, returning at the first
\* certificate that fails a check, the will expire check first.
ValidityCheckResult(validity_list, time_offset, now) ==
    LET Loop[i \in 1..(Len(validity_list) + 1)] ==
            IF i > Len(validity_list) THEN ValidityOk
            ELSE IF WillExpire(validity_list[i], time_offset, now)
                 THEN ValidityErr(WillExpireMessage(validity_list[i]))
            ELSE IF NotValidYet(validity_list[i], now)
                 THEN ValidityErr(NotValidMessage(validity_list[i]))
            ELSE Loop[i + 1]
    IN  Loop[1]

\* webhook::send of ValidityChecker::run, lines 65-69.
TlsValidityWebhook(name) == [level |-> "Warn", category |-> "TlsValidity", name |-> name]

InitValidity ==
    /\ vlist \in CertificateLists
    /\ vnow = 0
    /\ vsent = {}
    /\ vresult = ValidityOk
    /\ vpc = "idle"

\* No certificate to watch.
InitNoValidity ==
    /\ vlist = << >>
    /\ vnow = 0
    /\ vsent = {}
    /\ vresult = ValidityOk
    /\ vpc = "idle"

\* ValidityChecker::run, lines 58-72.
ValidityRun ==
    /\ vpc = "idle"
    /\ vresult' = ValidityCheckResult(vlist, TimeOffset, vnow)
    /\ vsent' = {TlsValidityWebhook(n) : n \in ValidityCheck(vlist, TimeOffset, vnow)}
    /\ vpc' = "ran"
    /\ UNCHANGED <<vlist, vnow>>
    /\ UNCHANGED nonValidityVars

\* The interval of the service passes: one day.
ValidityInterval ==
    /\ vpc = "ran"
    /\ vnow < MaxNow
    /\ vnow' = vnow + 1
    /\ vsent' = {}
    /\ vresult' = ValidityOk
    /\ vpc' = "idle"
    /\ UNCHANGED vlist
    /\ UNCHANGED nonValidityVars

NextValidity ==
    \/ ValidityRun
    \/ ValidityInterval

(***************************************************************************)
(* discovery/common.rs, discovery/dns.rs                                   *)
(***************************************************************************)

\* The most address entries of an upstream, and the most runs of discover.
MaxHosts == 2

MaxRuns == 2

\* The addresses a resolver answers with; v is the family, 4 or 6.
IpAddrs ==
    {[ip |-> "1.1.1.1", v |-> 4], [ip |-> "2.2.2.2", v |-> 4], [ip |-> "::1", v |-> 6]}

\* IpAddr::is_ipv4
IsIpv4(item) == item.v = 4

\* format_addrs: the entries (host, port, weight) of an upstream.
Addrs ==
    { [host |-> "a.com", port |-> "80", weight |-> 1],
      [host |-> "b.com", port |-> "80", weight |-> 2],
      [host |-> "a.com", port |-> "81", weight |-> 2] }

AddrLists ==
    {l \in UNION {[1..m -> Addrs] : m \in 0..MaxHosts} :
        \A i, j \in DOMAIN l : i # j => l[i] # l[j]}

\* What the resolver answers for a host: a failure, or addresses.
LookupFail == [ok |-> FALSE, ips |-> {}]

Lookup(ips) == [ok |-> TRUE, ips |-> ips]

Resolvers ==
    [{"a.com", "b.com"} ->
        {LookupFail, Lookup({[ip |-> "1.1.1.1", v |-> 4]}),
         Lookup({[ip |-> "2.2.2.2", v |-> 4], [ip |-> "::1", v |-> 6]})}]

\* Backend { addr, weight }
Backend(item, port, weight) == [ip |-> item, port |-> port, weight |-> weight]

\* Result<..> of a discovery.
DiscoverOk(backends) == [ok |-> TRUE, backends |-> backends]

DiscoverErr == [ok |-> FALSE, backends |-> {}]

\* No discovery has returned.
NoDiscover == [ok |-> FALSE, backends |-> {[ip |-> [ip |-> "", v |-> 0], port |-> "", weight |-> 0]}]

\* A filter that keeps every address.
KeepAddressAny(ipv4_only, item) == TRUE

\* common.rs:39-41, dns.rs:81-83: if ipv4_only && !item.is_ipv4() { continue }
KeepAddress(ipv4_only, item) == ~(ipv4_only /\ ~IsIpv4(item))

\* A discovery that leaves out the hosts whose resolution fails.
RunDiscoverPartial(conf, resolver) ==
    DiscoverOk(UNION {{Backend(item, conf.hosts[i].port, conf.hosts[i].weight) :
                            item \in {x \in resolver[conf.hosts[i].host].ips :
                                          KeepAddress(conf.ipv4_only, x)}} :
                        i \in DOMAIN conf.hosts})

\* Dns::run_discover, lines 66-111 (lookup_ip, tokio_lookup_ip: 38-65), and
\* new_common_discover_backends, lines 24-53: the ? returns the error of the
\* first resolution that fails; else a backend for every address kept of
\* every entry, with the entry's port and weight, in a BTreeSet.
RunDiscover(conf, resolver) ==
    IF \E i \in DOMAIN conf.hosts : ~resolver[conf.hosts[i].host].ok
    THEN DiscoverErr
    ELSE DiscoverOk(UNION {{Backend(item, conf.hosts[i].port, conf.hosts[i].weight) :
                                item \in {x \in resolver[conf.hosts[i].host].ips :
                                              KeepAddress(conf.ipv4_only, x)}} :
                            i \in DOMAIN conf.hosts})

\* webhook::send of Dns::discover, lines 128-133.
DiscoverFailWebhook == [category |-> "ServiceDiscoverFail", level |-> "Warn"]

\* A caller that takes the set of a failed discovery.
BackendsAfterUpdateAlways(held, result) == result.backends

\* The caller of discover: the set is replaced on Ok, kept on Err.
BackendsAfterUpdate(held, result) == IF result.ok THEN result.backends ELSE held

InitDiscovery ==
    /\ dconf \in {[kind |-> k, ipv4_only |-> b, hosts |-> l] :
                    k \in {"static", "dns"}, b \in BOOLEAN, l \in AddrLists}
    /\ dresolver \in Resolvers
    /\ dheld = {}
    /\ dresult = NoDiscover
    /\ dwebhooks = << >>
    /\ druns = 0
    /\ dpc = "idle"

\* No upstream to discover.
InitNoDiscovery ==
    /\ dconf = [kind |-> "static", ipv4_only |-> FALSE, hosts |-> << >>]
    /\ dresolver = [h \in {"a.com", "b.com"} |-> LookupFail]
    /\ dheld = {}
    /\ dresult = NoDiscover
    /\ dwebhooks = << >>
    /\ druns = 0
    /\ dpc = "idle"

\* new_common_discover_backends, lines 24-53: once, at construction.
NewCommonDiscoverBackends ==
    /\ dpc = "idle"
    /\ dconf.kind = "static"
    /\ dresult' = RunDiscover(dconf, dresolver)
    /\ dheld' = BackendsAfterUpdate(dheld, RunDiscover(dconf, dresolver))
    /\ dpc' = "done"
    /\ UNCHANGED <<dconf, dresolver, dwebhooks, druns>>
    /\ UNCHANGED nonDiscoveryVars

\* Dns::discover, lines 116-136.
Discover ==
    /\ dpc = "idle"
    /\ dconf.kind = "dns"
    /\ dresult' = RunDiscover(dconf, dresolver)
    /\ dwebhooks' = IF RunDiscover(dconf, dresolver).ok THEN << >>
                    ELSE <<DiscoverFailWebhook>>
    /\ druns' = druns + 1
    /\ dpc' = "returned"
    /\ UNCHANGED <<dconf, dresolver, dheld>>
    /\ UNCHANGED nonDiscoveryVars

\* The caller takes the result; the names may resolve otherwise by the next
\* run.
DiscoverUpdate ==
    /\ dpc = "returned"
    /\ dheld' = BackendsAfterUpdate(dheld, dresult)
    /\ IF druns < MaxRuns
       THEN dpc' = "idle" /\ dresolver' \in Resolvers
       ELSE dpc' = "done" /\ UNCHANGED dresolver
    /\ UNCHANGED <<dconf, dresult, dwebhooks, druns>>
    /\ UNCHANGED nonDiscoveryVars

NextDiscovery ==
    \/ NewCommonDiscoverBackends
    \/ Discover
    \/ DiscoverUpdate

(***************************************************************************)
(* plugin/wirefilter_plugin.rs, plugin/owasp_crs_plugin.rs, and            *)
(* Limiter::new of plugin/limit.rs                                         *)
(***************************************************************************)

\* The most expressions in a restriction_expression_list.
MaxExpressions == 2

\* The steps a plugin can be declared with.
PluginSteps == {"request", "proxy_upstream", "upstream_response"}

\* The steps a plugin is allowed at.
AllowedSteps == {"request", "proxy_upstream"}

\* The expressions of a configuration, each "field == value"; the last names
\* a field the scheme does not have.
Expressions ==
    { [field |-> "http.request.uri.path", value |-> "/admin"],
      [field |-> "http.request.method", value |-> "POST"],
      [field |-> "http.user_agent", value |-> "curl"],
      [field |-> "http.host", value |-> "a.com"],
      [field |-> "http.nothing", value |-> ""] }

\* get_scheme, lines 68-86: the fields the expressions here use.
SchemeFields ==
    {"http.request.uri.path", "http.request.method", "http.user_agent", "http.host"}

ExpressionLists == UNION {[1..m -> Expressions] : m \in 0..MaxExpressions}

\* The value of a limit plugin: whether it has a space, the length of its
\* key, whether its max is a number.
LimitValues ==
    { [space |-> TRUE, key_len |-> 9, max_ok |-> TRUE],
      [space |-> FALSE, key_len |-> 9, max_ok |-> TRUE],
      [space |-> TRUE, key_len |-> 1, max_ok |-> TRUE],
      [space |-> TRUE, key_len |-> 9, max_ok |-> FALSE] }

\* The configurations of a plugin.
PluginConfs ==
    {[category |-> "wirefilter", step |-> s, exps |-> l, value |-> CHOOSE v \in LimitValues : TRUE] :
        s \in PluginSteps, l \in ExpressionLists}
    \cup {[category |-> "owasp_crs", step |-> s, exps |-> << >>, value |-> CHOOSE v \in LimitValues : TRUE] :
        s \in PluginSteps}
    \cup {[category |-> "limit", step |-> s, exps |-> << >>, value |-> v] :
        s \in PluginSteps, v \in LimitValues}

\* Result<Self>: the plugin, or an error.
PluginOk(conf) == [ok |-> TRUE, category |-> conf.category, step |-> conf.step, exps |-> conf.exps]

PluginErr(conf, etype) == [ok |-> FALSE, category |-> conf.category, step |-> etype, exps |-> << >>]

\* No construction yet.
NoPlugin == [ok |-> FALSE, category |-> "", step |-> "", exps |-> << >>]

\* TryFrom<&PluginConf> for WirefilterPlugin, lines 20-66: every expression
\* parses, and the step is request or proxy_upstream.
NewWirefilterPlugin(conf) ==
    IF \E i \in DOMAIN conf.exps : conf.exps[i].field \notin SchemeFields
    THEN PluginErr(conf, "Invalid")
    ELSE IF conf.step \notin AllowedSteps THEN PluginErr(conf, "Invalid")
    ELSE PluginOk(conf)

\* TryFrom<&PluginConf> for OwaspCrsPlugin, lines 16-42.
NewOwaspCrsPlugin(conf) ==
    IF conf.step \notin AllowedSteps THEN PluginErr(conf, "Invalid") ELSE PluginOk(conf)

\* Limiter::new, lines 42-70: the value is split and parsed; the step is
\* taken as it is.
NewLimiterPlugin(conf) ==
    IF ~conf.value.space THEN PluginErr(conf, "Invalid")
    ELSE IF ~conf.value.max_ok THEN PluginErr(conf, "ParseInt")
    ELSE IF conf.value.key_len < 2 THEN PluginErr(conf, "Invalid")
    ELSE PluginOk(conf)

\* The requests: Host, User-Agent, path, method.
PluginRequests ==
    {[host |-> h, user_agent |-> u, path |-> p, method |-> m] :
        h \in {"a.com", "b.com"}, u \in {"curl", "pingap"},
        p \in {"/", "/admin"}, m \in {"GET", "POST"}}

\* No request.
NoPluginRequest == [host |-> "", user_agent |-> "", path |-> "", method |-> ""]

\* handle_request, lines 128-141: the value each field of the execution
\* context is given. The path and the method are the request's; the user
\* agent is the name of the header, USER_AGENT.as_str(); http.host is given
\* a bool, which its type Bytes refuses, so it has no value (none).
FieldValue(field, req) ==
    CASE field = "http.request.uri.path" -> [set |-> TRUE, value |-> req.path]
      [] field = "http.request.method" -> [set |-> TRUE, value |-> req.method]
      [] field = "http.user_agent" -> [set |-> TRUE, value |-> "user-agent"]
      [] OTHER -> [set |-> FALSE, value |-> ""]

\* What filter.execute does with a field that has no value: the engine
\* panics, or the comparison is false.
UnsetOutcomes == {"panic", "false"}

\* handle_request, lines 120-146: the loop over the expressions, for one of
\* the two things the engine does with a field that has no value.
WirefilterAllow(exps, req, unset) ==
    LET matched(e) == FieldValue(e.field, req).set /\ FieldValue(e.field, req).value = e.value
    IN  IF unset = "panic" /\ \E i \in DOMAIN exps : ~FieldValue(exps[i].field, req).set
        THEN "panic"
        ELSE IF \E i \in DOMAIN exps : matched(exps[i]) THEN "forbidden" ELSE "allow"

\* Ok(None), Ok(Some(forbidden_resp)), and a panic of the task.
PluginContinue == [kind |-> "continue", status |-> 0]

PluginForbidden == [kind |-> "respond", status |-> 403]

PluginPanic == [kind |-> "panic", status |-> 0]

\* No call yet.
NoPluginResult == [kind |-> "none", status |-> 0]

\* A handle_request that does not look at the step.
WirefilterHandleRequestAnyStep(plugin, step, req) ==
    {CASE WirefilterAllow(plugin.exps, req, u) = "panic" -> PluginPanic
       [] WirefilterAllow(plugin.exps, req, u) = "forbidden" -> PluginForbidden
       [] OTHER -> PluginContinue : u \in UnsetOutcomes}

\* WirefilterPlugin::handle_request, lines 106-181.
WirefilterHandleRequest(plugin, step, req) ==
    IF step # plugin.step THEN {PluginContinue}
    ELSE {CASE WirefilterAllow(plugin.exps, req, u) = "panic" -> PluginPanic
            [] WirefilterAllow(plugin.exps, req, u) = "forbidden" -> PluginForbidden
            [] OTHER -> PluginContinue : u \in UnsetOutcomes}

InitPlugin ==
    /\ wconf \in PluginConfs
    /\ wplugin = NoPlugin
    /\ wstep = ""
    /\ wreq = NoPluginRequest
    /\ wresult = NoPluginResult
    /\ wpc = "new"

\* No plugin.
InitNoPlugin ==
    /\ wconf = [category |-> "", step |-> "", exps |-> << >>,
                value |-> CHOOSE v \in LimitValues : TRUE]
    /\ wplugin = NoPlugin
    /\ wstep = ""
    /\ wreq = NoPluginRequest
    /\ wresult = NoPluginResult
    /\ wpc = "new"

\* WirefilterPlugin::new, OwaspCrsPlugin::new, Limiter::new
NewPlugin ==
    /\ wpc = "new"
    /\ wplugin' = CASE wconf.category = "wirefilter" -> NewWirefilterPlugin(wconf)
                    [] wconf.category = "owasp_crs" -> NewOwaspCrsPlugin(wconf)
                    [] OTHER -> NewLimiterPlugin(wconf)
    /\ wpc' = "made"
    /\ UNCHANGED <<wconf, wstep, wreq, wresult>>
    /\ UNCHANGED nonPluginVars

\* The runtime calls the expression filter at a step for a request.
HandleRequest ==
    /\ wpc = "made"
    /\ wplugin.ok
    /\ wplugin.category = "wirefilter"
    /\ \E step \in AllowedSteps, req \in PluginRequests :
        /\ wstep' = step
        /\ wreq' = req
        /\ wresult' \in WirefilterHandleRequest(wplugin, step, req)
    /\ wpc' = "returned"
    /\ UNCHANGED <<wconf, wplugin>>
    /\ UNCHANGED nonPluginVars

NextPlugin ==
    \/ NewPlugin
    \/ HandleRequest

(***************************************************************************)
(* proxy/server.rs: Server::new and Server::run                            *)
(***************************************************************************)

\* The names of the upstreams of the configuration.
UpstreamNames == {"u1", "u2"}

\* The kinds of upstream: two load-balancing policies with background
\* state, and a directory.
UpstreamKinds == {"round_robin", "consistent", "directory"}

\* ServerConf: the upstream of each location, in the order of the locations,
\* and the kind of each upstream.
AssemblyConfs ==
    {[locations |-> l, upstreams |-> k] :
        l \in UNION {[1..m -> UpstreamNames] : m \in 0..MaxLocations},
        k \in [UpstreamNames -> UpstreamKinds]}

\* Server::new, lines 194-209: an Upstream for every upstream of the
\* configuration that a location uses.
InUsedUpstreams(conf) == {conf.locations[i] : i \in DOMAIN conf.locations}

\* Server::new, lines 211-221: a Location for every location, with its
\* upstream.
NewLocations(conf) ==
    [i \in DOMAIN conf.locations |->
        [upstream |-> [name |-> conf.locations[i], kind |-> conf.upstreams[conf.locations[i]]]]]

\* GenBackgroundService::new(name, up)
BackgroundService(upstream) == [name |-> upstream.name, kind |-> upstream.kind]

\* Server::run, lines 246-254: for every location, a service when its
\* upstream is round-robin, and one when it is consistent.
BackgroundServices(locations) ==
    LET F[n \in 0..Len(locations)] ==
            IF n = 0 THEN << >>
            ELSE IF locations[n].upstream.kind \in {"round_robin", "consistent"}
                 THEN Append(F[n - 1], BackgroundService(locations[n].upstream))
                 ELSE F[n - 1]
    IN  F[Len(locations)]

\* No Server yet.
NoServer == [upstreams |-> {}, locations |-> << >>]

InitAssembly ==
    /\ aconf \in AssemblyConfs
    /\ aserver = NoServer
    /\ aservices = << >>
    /\ apc = "new"

\* No server to assemble.
InitNoAssembly ==
    /\ aconf = [locations |-> << >>, upstreams |-> [u \in UpstreamNames |-> "directory"]]
    /\ aserver = NoServer
    /\ aservices = << >>
    /\ apc = "new"

\* Server::new, lines 193-242.
ServerNew ==
    /\ apc = "new"
    /\ aserver' = [upstreams |-> InUsedUpstreams(aconf), locations |-> NewLocations(aconf)]
    /\ apc' = "run"
    /\ UNCHANGED <<aconf, aservices>>
    /\ UNCHANGED nonAssemblyVars

\* Server::run, lines 243-254.
ServerRun ==
    /\ apc = "run"
    /\ aservices' = BackgroundServices(aserver.locations)
    /\ apc' = "running"
    /\ UNCHANGED <<aconf, aserver>>
    /\ UNCHANGED nonAssemblyVars

NextAssembly ==
    \/ ServerNew
    \/ ServerRun

(***************************************************************************)
(* cache/http_cache.rs: ObjectMissHandler over bodies of many KiB          *)
(***************************************************************************)

\* The most pieces of body one miss handler is given.
MaxChunks == 2

\* A piece of body: len bytes of the value byte.  The lengths lie on both
\* sides of the two sizes get_wegith compares with.
Chunks ==
    {[byte |-> b, len |-> n] :
        b \in {7, 255}, n \in {1, 50 * 1024 - 1, 50 * 1024, 450 * 1024}}

\* Vec::len of a body held as its pieces.
BodyLen(body) ==
    LET Sum[i \in 0..Len(body)] == IF i = 0 THEN 0 ELSE Sum[i - 1] + body[i].len
    IN  Sum[Len(body)]

\* A weight that takes a body of exactly 50 KiB or 500 KiB for the smaller one.
GetWegithInclusive(size) ==
    IF size <= 50 * 1024 THEN 4
    ELSE IF size <= 500 * 1024 THEN 2
    ELSE 1

\* get_wegith, lines 209-217.
GetWegith(size) ==
    IF size < 50 * 1024 THEN 4
    ELSE IF size < 500 * 1024 THEN 2
    ELSE 1

\* No miss handler, and the one get_miss_handler makes, lines 262-267.
NoObjectMissHandler == [key |-> "", meta |-> <<<< >>, << >>>>, body |-> << >>]

ObjectMissHandler(key, meta) == [key |-> key, meta |-> meta, body |-> << >>]

\* The call self.cache.put(key, CacheObject { meta, body }, weight) of
\* finish, lines 195-205.
StoragePut(h) ==
    [key |-> h.key, data |-> [meta |-> h.meta, body |-> h.body],
     weight |-> GetWegith(BodyLen(h.body))]

\* pingora::Result<usize> of finish; nothing returned yet.
FinishOk(size) == [kind |-> "ok", size |-> size]

FinishErr == [kind |-> "err", size |-> 0]

NoFinish == [kind |-> "none", size |-> 0]

InitObject ==
    /\ oh = NoObjectMissHandler
    /\ ogiven = [key |-> "", meta |-> <<<< >>, << >>>>, chunks |-> << >>]
    /\ oputs = << >>
    /\ oret = NoFinish
    /\ opc = "none"

\* No miss handler is looked at.
InitNoObject ==
    /\ oh = NoObjectMissHandler
    /\ ogiven = [key |-> "", meta |-> <<<< >>, << >>>>, chunks |-> << >>]
    /\ oputs = << >>
    /\ oret = NoFinish
    /\ opc = "none"

\* HttpCache::get_miss_handler, lines 241-269; ogiven keeps what the handler
\* was given.
ObjectGetMissHandler(key, meta) ==
    /\ opc = "none"
    /\ oh' = ObjectMissHandler(key, meta)
    /\ ogiven' = [key |-> key, meta |-> meta, chunks |-> << >>]
    /\ opc' = "open"
    /\ UNCHANGED <<oputs, oret>>
    /\ UNCHANGED nonObjectVars

\* ObjectMissHandler::write_body, lines 181-188: self.body.extend(&data).
ObjectWriteBody(data) ==
    /\ opc = "open"
    /\ Len(ogiven.chunks) < MaxChunks
    /\ oh' = [oh EXCEPT !.body = Append(@, data)]
    /\ ogiven' = [ogiven EXCEPT !.chunks = Append(@, data)]
    /\ UNCHANGED <<oputs, oret, opc>>
    /\ UNCHANGED nonObjectVars

\* ObjectMissHandler::finish, lines 190-206: the put of the storage returns
\* Ok or Err, and `?` hands its Err to the caller.
ObjectFinish(put_ok) ==
    /\ opc = "open"
    /\ oputs' = Append(oputs, StoragePut(oh))
    /\ oret' = IF put_ok THEN FinishOk(BodyLen(oh.body)) ELSE FinishErr
    /\ opc' = "finished"
    /\ UNCHANGED <<oh, ogiven>>
    /\ UNCHANGED nonObjectVars

NextObject ==
    \/ \E meta \in BinaryMetas : ObjectGetMissHandler(HttpKey, meta)
    \/ \E data \in Chunks : ObjectWriteBody(data)
    \/ \E put_ok \in BOOLEAN : ObjectFinish(put_ok)

(***************************************************************************)
(* plugin/limit.rs: Limiter::new over the characters of the value          *)
(***************************************************************************)

\* The value of a digit.
DigitValue ==
    [ch \in {"0", "1", "2", "3", "4", "5", "6", "7", "8", "9"} |->
        CASE ch = "0" -> 0 [] ch = "1" -> 1 [] ch = "2" -> 2 [] ch = "3" -> 3
          [] ch = "4" -> 4 [] ch = "5" -> 5 [] ch = "6" -> 6 [] ch = "7" -> 7
          [] ch = "8" -> 8 [] ch = "9" -> 9]

\* u32::MAX, 4294967295, digit by digit.
U32Max == <<"4", "2", "9", "4", "9", "6", "7", "2", "9", "5">>

\* The values a limit plugin is configured with, as their characters, all of
\* one byte: a prefix, the rest of the key, a space or none, and the max.
LimiterValues ==
    {p \o k \o s \o m :
        p \in {<<"~">>, <<">">>, <<"?">>, <<"i">>, << >>},
        k \in {<< >>, <<"d">>, <<"i", "d">>},
        s \in {<< >>, <<" ">>},
        m \in {<<"1", "0">>, <<"0">>, <<"+", "1">>, U32Max, << >>, <<"x">>,
               <<"-", "1">>, <<"1", " ", "0">>,
               <<"4", "2", "9", "4", "9", "6", "7", "2", "9", "6">>}}

\* str::split_once(' '): the parts before and after the first space.
SplitOnce(value) ==
    LET spaces == {i \in DOMAIN value : value[i] = " "}
        at == CHOOSE i \in spaces : \A j \in spaces : i <= j
    IN  IF spaces = {} THEN [found |-> FALSE, key |-> << >>, max |-> << >>]
        ELSE [found |-> TRUE, key |-> SubSeq(value, 1, at - 1),
              max |-> SubSeq(value, at + 1, Len(value))]

\* The digits without the zeros in front (one digit is kept).
StripZeros(digits) ==
    LET nonzero == {i \in DOMAIN digits : digits[i] # "0"}
    IN  IF nonzero = {} THEN <<"0">>
        ELSE SubSeq(digits, CHOOSE i \in nonzero : \A j \in nonzero : i <= j,
                    Len(digits))

\* a <= b for two numbers of the same count of digits.
DigitsLeq(a, b) ==
    LET differ == {i \in DOMAIN a : a[i] # b[i]}
        at == CHOOSE i \in differ : \A j \in differ : i <= j
    IN  differ = {} \/ DigitValue[a[at]] < DigitValue[b[at]]

\* A parse that takes any digits, however many.
ParseU32Unbounded(text) ==
    LET digits == IF text # << >> /\ text[1] = "+" THEN Tail(text) ELSE text
    IN  IF digits = << >> \/ \E i \in DOMAIN digits : digits[i] \notin DOMAIN DigitValue
        THEN [ok |-> FALSE, digits |-> << >>]
        ELSE [ok |-> TRUE, digits |-> StripZeros(digits)]

\* str::parse::<u32>, line 47: an optional plus sign and digits, of a number
\* that is at most u32::MAX.  The number is kept as its digits.
ParseU32(text) ==
    LET digits == IF text # << >> /\ text[1] = "+" THEN Tail(text) ELSE text
        number == StripZeros(digits)
    IN  IF digits = << >> \/ \E i \in DOMAIN digits : digits[i] \notin DOMAIN DigitValue
        THEN [ok |-> FALSE, digits |-> << >>]
        ELSE IF Len(number) > Len(U32Max)
                \/ (Len(number) = Len(U32Max) /\ ~DigitsLeq(number, U32Max))
        THEN [ok |-> FALSE, digits |-> << >>]
        ELSE [ok |-> TRUE, digits |-> number]

\* Result<Limiter>: Ok(Self { tag, max, value, .. }) and Err.
LimiterOk(tag, max, value) ==
    [ok |-> TRUE, etype |-> "", tag |-> tag, max |-> max, value |-> value]

LimiterErr(etype) ==
    [ok |-> FALSE, etype |-> etype, tag |-> "", max |-> << >>, value |-> << >>]

\* Limiter::new was not called yet.
NoLimiter == [ok |-> FALSE, etype |-> "none", tag |-> "", max |-> << >>, value |-> << >>]

\* Limiter::new, lines 57-62: the tag of the first character.
TagOf(ch) ==
    CASE ch = "~" -> "Cookie"
      [] ch = ">" -> "RequestHeader"
      [] ch = "?" -> "Query"
      [] OTHER -> "Ip"

\* Limiter::new, lines 42-70.
LimiterNew(value) ==
    LET split == SplitOnce(value)
        max == ParseU32(split.max)
    IN  IF ~split.found THEN LimiterErr("Invalid")
        ELSE IF ~max.ok THEN LimiterErr("ParseInt")
        ELSE IF Len(split.key) < 2 THEN LimiterErr("Invalid")
        ELSE LimiterOk(TagOf(split.key[1]), max.digits,
                       SubSeq(split.key, 2, Len(split.key)))

InitLimiter ==
    /\ nvalue \in LimiterValues
    /\ nlimiter = NoLimiter
    /\ npc = "conf"

\* No limit plugin is constructed.
InitNoLimiter ==
    /\ nvalue = << >>
    /\ nlimiter = NoLimiter
    /\ npc = "conf"

\* The plugin of the configuration is constructed.
LimiterNewCall ==
    /\ npc = "conf"
    /\ nlimiter' = LimiterNew(nvalue)
    /\ npc' = "done"
    /\ UNCHANGED nvalue
    /\ UNCHANGED nonLimiterVars

NextLimiter ==
    \/ LimiterNewCall

(***************************************************************************)
(* cache/file.rs: puts with what a reader saw before them                  *)
(***************************************************************************)

InitFailedPut ==
    /\ pbefore = [c \in Callers |-> None]

\* No put is followed.
InitNoFailedPut ==
    /\ pbefore = [c \in Callers |-> None]

\* FileCache::put, up to the await of fs::write; pbefore keeps what a get of
\* the key returned when put was called.
PutCacheAfterGet(c, key, data) ==
    /\ puts[c].pc = "idle"
    /\ pbefore' = [pbefore EXCEPT ![c] = FileCacheGet(key)]
    /\ FileCachePut(c, key, data)
    /\ UNCHANGED nonCacheFailedPutVars

\* FileCache::put, from the await of fs::write; put returns and what was
\* kept for it is dropped.
PutWriteAfterGet(c) ==
    /\ puts[c].pc = "write"
    /\ \E w \in FsWrite(directory[puts[c].key], Encode(puts[c].data)) :
        FileCacheWrite(c, w)
    /\ pbefore' = [pbefore EXCEPT ![c] = None]
    /\ UNCHANGED nonCacheFailedPutVars

NextFailedPut ==
    \/ \E c \in Callers, key \in CacheKeys, data \in CacheValues : PutCacheAfterGet(c, key, data)
    \/ \E c \in Callers : PutWriteAfterGet(c)
    \/ \E key \in CacheKeys : Get(key)

(***************************************************************************)
(* Specifications                                                          *)
(***************************************************************************)

\* The server: requests through the hooks of one Server, no limit plugin
\* in the chain.
Init == InitServer /\ InitNoLimit /\ InitNoCodec /\ InitCache /\ InitHttpCache /\ InitNoHit /\ InitNoFilter /\ InitNoFail /\ InitNoValidity /\ InitNoDiscovery /\ InitNoPlugin /\ InitNoAssembly /\ InitNoObject /\ InitNoLimiter /\ InitNoFailedPut

Next == NextServer

Spec == Init /\ [][Next]_vars

\* The scheduler runs every request task that can take a step; a task that
\* is dropped takes none.
FairSpec == Init /\ [][Next]_vars /\ \A r \in Requests : WF_vars(RequestStep(r))

\* The limit plugins of one location's chain under concurrent requests.
LimitInit == InitServer /\ InitLimit /\ InitNoCodec /\ InitCache /\ InitHttpCache /\ InitNoHit /\ InitNoFilter /\ InitNoFail /\ InitNoValidity /\ InitNoDiscovery /\ InitNoPlugin /\ InitNoAssembly /\ InitNoObject /\ InitNoLimiter /\ InitNoFailedPut

SpecLimit == LimitInit /\ [][NextLimit]_vars

\* The limit plugins with tasks that serve one request after another.
SpecLimitKeepAlive == LimitInit /\ [][NextLimitKeepAlive]_vars

\* The codec: an object is encoded, the buffer possibly cut short, decoded.
CodecInit == InitServer /\ InitNoLimit /\ InitCodec /\ InitCache /\ InitHttpCache /\ InitNoHit /\ InitNoFilter /\ InitNoFail /\ InitNoValidity /\ InitNoDiscovery /\ InitNoPlugin /\ InitNoAssembly /\ InitNoObject /\ InitNoLimiter /\ InitNoFailedPut

SpecCodec == CodecInit /\ [][NextCodec]_vars

\* The file cache: gets, puts in two steps, removes, evictions, restarts.
CacheInit == InitServer /\ InitNoLimit /\ InitNoCodec /\ InitCache /\ InitHttpCache /\ InitNoHit /\ InitNoFilter /\ InitNoFail /\ InitNoValidity /\ InitNoDiscovery /\ InitNoPlugin /\ InitNoAssembly /\ InitNoObject /\ InitNoLimiter /\ InitNoFailedPut

SpecCache == CacheInit /\ [][NextCache]_vars

\* The HTTP cache over the file cache: one key, a miss handler, purges,
\* updates of the meta, evictions.
HttpCacheInit == InitServer /\ InitNoLimit /\ InitNoCodec /\ InitCache /\ InitHttpCache /\ InitNoHit /\ InitNoFilter /\ InitNoFail /\ InitNoValidity /\ InitNoDiscovery /\ InitNoPlugin /\ InitNoAssembly /\ InitNoObject /\ InitNoLimiter /\ InitNoFailedPut

SpecHttpCache == HttpCacheInit /\ [][NextHttpCache]_vars

\* A hit handler over a body: seeks and reads.
HitInit == InitServer /\ InitNoLimit /\ InitNoCodec /\ InitCache /\ InitHttpCache /\ InitHit /\ InitNoFilter /\ InitNoFail /\ InitNoValidity /\ InitNoDiscovery /\ InitNoPlugin /\ InitNoAssembly /\ InitNoObject /\ InitNoLimiter /\ InitNoFailedPut

SpecHit == HitInit /\ [][NextHit]_vars

\* One request of one server, from request_filter to logging.
FilterInit ==
    InitServer /\ InitNoLimit /\ InitNoCodec /\ InitCache /\ InitHttpCache /\ InitNoHit /\ InitFilter /\ InitNoFail /\ InitNoValidity /\ InitNoDiscovery /\ InitNoPlugin /\ InitNoAssembly /\ InitNoObject /\ InitNoLimiter /\ InitNoFailedPut

SpecFilter == FilterInit /\ [][NextFilter]_vars

\* One error handed to fail_to_proxy, then the logging hook.
FailInit ==
    InitServer /\ InitNoLimit /\ InitNoCodec /\ InitCache /\ InitHttpCache /\ InitNoHit /\ InitNoFilter /\ InitFail /\ InitNoValidity /\ InitNoDiscovery /\ InitNoPlugin /\ InitNoAssembly /\ InitNoObject /\ InitNoLimiter /\ InitNoFailedPut

SpecFail == FailInit /\ [][NextFail]_vars

\* The validity monitor over a list of certificates, one run a day.
ValidityInit ==
    InitServer /\ InitNoLimit /\ InitNoCodec /\ InitCache /\ InitHttpCache /\ InitNoHit /\ InitNoFilter /\ InitNoFail /\ InitValidity /\ InitNoDiscovery /\ InitNoPlugin /\ InitNoAssembly /\ InitNoObject /\ InitNoLimiter /\ InitNoFailedPut

SpecValidity == ValidityInit /\ [][NextValidity]_vars

\* A static or DNS discovery of an upstream, the resolver changing between runs.
DiscoveryInit ==
    InitServer /\ InitNoLimit /\ InitNoCodec /\ InitCache /\ InitHttpCache /\ InitNoHit /\ InitNoFilter /\ InitNoFail /\ InitNoValidity /\ InitDiscovery /\ InitNoPlugin /\ InitNoAssembly /\ InitNoObject /\ InitNoLimiter /\ InitNoFailedPut

SpecDiscovery == DiscoveryInit /\ [][NextDiscovery]_vars

\* A plugin made from its configuration, then called for one request at one step.
PluginInit ==
    InitServer /\ InitNoLimit /\ InitNoCodec /\ InitCache /\ InitHttpCache /\ InitNoHit /\ InitNoFilter /\ InitNoFail /\ InitNoValidity /\ InitNoDiscovery /\ InitPlugin /\ InitNoAssembly /\ InitNoObject /\ InitNoLimiter /\ InitNoFailedPut

SpecPlugin == PluginInit /\ [][NextPlugin]_vars

\* A server assembled from its configuration: Server::new, then Server::run.
AssemblyInit ==
    InitServer /\ InitNoLimit /\ InitNoCodec /\ InitCache /\ InitHttpCache /\ InitNoHit /\ InitNoFilter /\ InitNoFail /\ InitNoValidity /\ InitNoDiscovery /\ InitNoPlugin /\ InitAssembly /\ InitNoObject /\ InitNoLimiter /\ InitNoFailedPut

SpecAssembly == AssemblyInit /\ [][NextAssembly]_vars

\* A miss handler that is given pieces of body of many KiB and finishes.
ObjectInit ==
    InitServer /\ InitNoLimit /\ InitNoCodec /\ InitCache /\ InitHttpCache /\ InitNoHit /\ InitNoFilter /\ InitNoFail /\ InitNoValidity /\ InitNoDiscovery /\ InitNoPlugin /\ InitNoAssembly /\ InitObject /\ InitNoLimiter /\ InitNoFailedPut

SpecObject == ObjectInit /\ [][NextObject]_vars

\* The construction of a limit plugin from its value.
LimiterInit ==
    InitServer /\ InitNoLimit /\ InitNoCodec /\ InitCache /\ InitHttpCache /\ InitNoHit /\ InitNoFilter /\ InitNoFail /\ InitNoValidity /\ InitNoDiscovery /\ InitNoPlugin /\ InitNoAssembly /\ InitNoObject /\ InitLimiter /\ InitNoFailedPut

SpecLimiter == LimiterInit /\ [][NextLimiter]_vars

\* The file cache with what a get returned before each put.
FailedPutInit ==
    InitServer /\ InitNoLimit /\ InitNoCodec /\ InitCache /\ InitHttpCache /\ InitNoHit /\ InitNoFilter /\ InitNoFail /\ InitNoValidity /\ InitNoDiscovery /\ InitNoPlugin /\ InitNoAssembly /\ InitNoObject /\ InitNoLimiter /\ InitFailedPut

SpecFailedPut == FailedPutInit /\ [][NextFailedPut]_vars

(***************************************************************************)
(* Claims about the request counters and the logging hook                  *)
(***************************************************************************)

\* The requests that are between the two fetch_add calls of request_filter.
BetweenCounters == {r \in Requests : pc[r] = "rf_accepted"}

\* C1: in every reachable state, processing equals the number of requests
\* that entered request_filter minus the number of runs of the logging hook;
\* the requests that entered are those counted in accepted plus those that
\* are between the two increments.
C1_ProcessingBalance ==
    /\ processing = nAccepts - nLoggings
    /\ nAccepts = accepted + Cardinality(BetweenCounters)

\* Two requests were accepted, one of them was logged and the other is
\* still being processed.
C1_Witness ==
    /\ nAccepts = 2
    /\ nLoggings = 1
    /\ processing = 1
    /\ \E r \in Requests : pc[r] = "upstream_peer"

\* C2: processing is never negative in a state a reader of the counters can
\* see (the stats body included), whichever way requests end, and accepted
\* never decreases.
C2_CountersNonNegative ==
    /\ [](processing >= 0 /\ ServerStats.processing >= 0 /\ ServerStats.accepted >= 0)
    /\ [][accepted' >= accepted]_vars

\* One request could not be read, another failed in request_filter and was
\* logged, and nothing is being processed.
C2_Witness ==
    /\ \E r \in Requests : ended[r] = "unread"
    /\ \E r \in Requests : pc[r] = "done" /\ ended[r] = "error" /\ logged[r] = 1
    /\ processing = 0
    /\ accepted = 1

\* The ways a request ends that the logging hook follows.
LoggedEndings == {"normal", "error", "short_circuit"}

\* The requests counted in processing and not uncounted yet.
CountedRequests ==
    {r \in Requests : pc[r] # "idle" /\ ended[r] # "unread" /\ logged[r] = 0}

LiveRequests == {r \in Requests : lpc[r] \notin {"idle", "done", "cancelled"}}

\* C4: for every limit plugin and key, at most max requests hold the guard
\* of that key at the same time; a request was admitted only with a count
\* after its increment of at most max; and a request that incremented the
\* count while max requests held the guard is rejected with 429.
C4_AdmittedWithinMax ==
    /\ \A i \in DOMAIN lchain : \A k \in LimitKeys :
            Cardinality(Holders(i, k)) <= lchain[i].max
    /\ \A r \in Requests : \A a \in ladmitted[r] :
            a.value <= lchain[a.plugin].max
    /\ \A r \in Requests :
            lfull[r] => lpc[r] = "check" \/ lresult[r] = 429

\* max requests hold the guard of a key and one more request with that key
\* failed with 429.
C4_Witness ==
    \E i \in DOMAIN lchain : \E k \in LimitKeys \ {""} : \E r \in Requests :
        /\ Cardinality(Holders(i, k)) = lchain[i].max
        /\ lpc[r] = "failing"
        /\ lidx[r] = i
        /\ KeyOf(lchain[i].tag, lreq[r]) = k
        /\ lfull[r]
        /\ lresult[r] = 429

\* The guards of a plugin's key that exist: incr's local ones and the ones
\* held by a State.
LiveGuards(i, k) ==
    Cardinality({r \in Requests : lguard[r] = NewGuard(i, k)})
        + Cardinality(Holders(i, k))

\* C5: every count equals the number of guards that exist for its key (each
\* increment is undone by the drop of its guard, once), so with no request
\* in flight every count is 0.
C5_IncrementsMatched ==
    /\ \A i \in DOMAIN inflight : \A k \in LimitKeys :
            inflight[i][k] = LiveGuards(i, k)
    /\ (LiveRequests = {} =>
            \A i \in DOMAIN inflight : \A k \in LimitKeys : inflight[i][k] = 0)

\* All requests have ended, one rejected with 429, one dropped after it was
\* admitted, and every count is 0.
C5_Witness ==
    /\ \A r \in Requests : lpc[r] \in {"done", "cancelled"}
    /\ \E r \in Requests : lpc[r] = "done" /\ lresult[r] = 429
    /\ \E r \in Requests : lpc[r] = "cancelled" /\ ladmitted[r] # {}
    /\ \A i \in DOMAIN inflight : \A k \in LimitKeys : inflight[i][k] = 0

\* The live requests a plugin admitted for a key.
AdmittedLive(i, k) ==
    {r \in LiveRequests : \E a \in ladmitted[r] : a.plugin = i /\ a.key = k}

\* C6: while the State of a request exists, the count of every plugin that
\* admitted it still includes it (the guard is dropped only with the State),
\* also for a chain with more than one limit plugin.
C6_GuardLivesWithState ==
    \A i \in DOMAIN lchain : \A k \in LimitKeys :
        inflight[i][k] >= Cardinality(AdmittedLive(i, k))

\* The step of a request through a plugin whose key is empty for it.
EmptyKeyStep(r) ==
    /\ lpc[r] = "chain"
    /\ KeyOf(lchain[lidx[r]].tag, lreq[r]) = ""
    /\ lpc'[r] # "cancelled"
    /\ <<lpc'[r], lidx'[r]>> # <<lpc[r], lidx[r]>>

\* C7: a plugin whose key is empty for the request returns Continue (the
\* chain goes on), changes no count and leaves the State's guard as it is.
C7_EmptyKeyIsNoop ==
    [][\A r \in Requests : EmptyKeyStep(r) =>
            /\ inflight' = inflight
            /\ lctx'[r].guard = lctx[r].guard
            /\ lguard'[r] = NoGuard
            /\ lresult'[r] = 0
            /\ ladmitted'[r] = ladmitted[r]
            /\ IF lidx[r] < Len(lchain)
                 THEN lpc'[r] = "chain" /\ lidx'[r] = lidx[r] + 1
                 ELSE lpc'[r] = "proxy"]_vars

\* The second plugin of a chain had an empty key for a request the first
\* one admitted: the request is proxied and still holds the first guard.
C7_Witness ==
    \E r \in Requests : \E k \in LimitKeys \ {""} :
        /\ Len(lchain) = 2
        /\ lpc[r] = "proxy"
        /\ KeyOf(lchain[2].tag, lreq[r]) = ""
        /\ lctx[r].guard = NewGuard(1, k)
        /\ inflight[1][k] = 1
        /\ \A k2 \in LimitKeys : inflight[2][k2] = 0

(***************************************************************************)
(* Claims about the cache object codec                                     *)
(***************************************************************************)

\* C8: decoding the encoding of an object gives the object; the encoding is
\* the two lengths as big-endian u32 values followed by meta0, meta1 and the
\* body.
C8_DecodeEncodeRoundTrip ==
    /\ cpc = "decoded" => cout = Decoded(cobj)
    /\ cpc = "encoded" =>
        LET n0 == Len(cobj.meta[1])
            n1 == Len(cobj.meta[2])
        IN  /\ Len(cbuf) = 8 + n0 + n1 + Len(cobj.body)
            /\ SubSeq(cbuf, 1, 4) = <<0, 0, 0, n0>>
            /\ SubSeq(cbuf, 5, 8) = <<0, 0, 0, n1>>
            /\ SubSeq(cbuf, 9, 8 + n0) = cobj.meta[1]
            /\ SubSeq(cbuf, 9 + n0, 8 + n0 + n1) = cobj.meta[2]
            /\ SubSeq(cbuf, 9 + n0 + n1, Len(cbuf)) = cobj.body

\* An object with two metas and a body, none of them empty, was encoded and
\* decoded.
C8_Witness ==
    /\ cpc = "decoded"
    /\ cobj.meta[1] # << >> /\ cobj.meta[2] # << >> /\ cobj.body # << >>
    /\ cobj.meta[1] # cobj.meta[2]
    /\ cout.obj = cobj

(***************************************************************************)
(* Claims about the file cache                                             *)
(***************************************************************************)

\* The keys whose file is there and is shorter than 8 bytes.
ShortFileKeys == {k \in CacheKeys : directory[k].exists /\ Len(directory[k].buf) < 8}

\* C9: a buffer shorter than 8 bytes decodes to the defaulted object, and a
\* get of a key whose file is shorter than 8 bytes, and that the memory tier
\* does not hold, is a miss.
C9_ShortBufferIsMiss ==
    \A k \in ShortFileKeys :
        /\ Decode(directory[k].buf) = Decoded(DefaultCacheObject)
        /\ cache[k] = None => FileCacheGet(k) = None

\* A failed write left 4 to 7 bytes of an encoding, the memory tier does
\* not hold the key, and a get of the key was a miss.
C9_Witness ==
    \E k \in ShortFileKeys :
        /\ Len(directory[k].buf) >= 4
        /\ cache[k] = None
        /\ got = [key |-> k, result |-> None]

\* C10: the object of a put that succeeded, with no remove and no other put
\* of the key since, is what get returns, from the memory tier and from the
\* file.
C10_GetAfterPut ==
    \A k \in CacheKeys :
        settled[k].kind = "some" =>
            /\ FileCacheGet(k) = settled[k]
            /\ FileCacheGetFile(k) = settled[k]
            /\ cache[k] \in {None, settled[k]}

\* The empty object and the other one were put under the two keys, the
\* memory tier lost one of them, and a get read it back from its file.
C10_Witness ==
    \E k \in CacheKeys : \E o \in CacheKeys \ {k} :
        /\ settled[k] = Some(DefaultCacheObject)
        /\ settled[o].kind = "some"
        /\ settled[o] # settled[k]
        /\ cache[k] = None
        /\ cache[o] = settled[o]
        /\ got = [key |-> k, result |-> settled[k]]

\* C11: the object of a successful put is what a new instance over the same
\* directory, with an empty memory tier, returns for the key.
C11_SurvivesRestart ==
    got = NewInstance =>
        \A k \in CacheKeys :
            /\ cache[k] = None
            /\ settled[k].kind = "some" =>
                /\ directory[k] = File(Encode(settled[k].obj))
                /\ FileCacheGet(k) = settled[k]

\* Two objects were put under the two keys and the process restarted.
C11_Witness ==
    /\ got = NewInstance
    /\ settled["key"] = Some(NewCacheObject(<<7>>, <<255>>, <<7>>))
    /\ settled["other"] = Some(DefaultCacheObject)
    /\ FileCacheGet("key") = settled["key"]

\* C12: after a successful remove of a key, with no put of the key since,
\* get of the key is none on every instance.
C12_GetAfterRemove ==
    \A k \in CacheKeys : settled[k] = Removed => FileCacheGet(k) = None

(***************************************************************************)
(* Claims about the HTTP cache                                             *)
(***************************************************************************)

\* C13: purge returns true exactly when the call removed an object stored
\* under the key, and false when nothing was stored or the removal failed.
C13_PurgeReportsRemoval ==
    purged.key # "" => (purged.result <=> purged.removed)

\* The object update_meta is to leave under the key: the new meta and the
\* body read at the start of the call.
UpdatedObject == Some([meta |-> updated.meta, body |-> updated.before.obj.body])

\* C14: update_meta on a key that holds an object replaces the meta and
\* keeps the body; on a key that holds no object it fails with Invalid and
\* stores nothing.
C14_UpdateMetaKeepsBody ==
    /\ [](/\ (updated.pc = "ok" /\ ~updated.overlapped) =>
                /\ FileCacheGet(updated.key) = UpdatedObject
                /\ FileCacheGetFile(updated.key) = UpdatedObject
          /\ updated.pc \in {"writing", "ok", "err"} => updated.before.kind = "some"
          /\ updated.pc = "invalid" => updated.before = None)
    /\ [][updated'.pc = "invalid" => UNCHANGED <<directory, cache, puts>>]_vars

\* An object with a body of two bytes was given another meta.
C14_Witness ==
    /\ updated.pc = "ok"
    /\ ~updated.overlapped
    /\ Len(updated.before.obj.body) = 2
    /\ updated.before.obj.meta # updated.meta
    /\ cache[updated.key] = UpdatedObject

\* The steps of a miss handler before finish: it is made, it is given a
\* piece of body, it is dropped.
BeforeFinishStep == miss' # miss /\ miss'.pc \in {"open", "dropped"}

\* C16: a miss handler changes the storage only in finish: making it, giving
\* it pieces of body and dropping it leave both tiers, and what get returns
\* for the key, as they were.
C16_MissHandlerStoresAtFinish ==
    [][BeforeFinishStep =>
        /\ UNCHANGED <<directory, cache>>
        /\ FileCacheGet(HttpKey)' = FileCacheGet(HttpKey)]_vars

\* A miss handler that was given two pieces of body was dropped, over a
\* storage that holds another object under the key.
C16_Witness ==
    /\ miss.pc = "dropped"
    /\ Len(miss.body) = 2
    /\ FileCacheGet(miss.key).kind = "some"
    /\ FileCacheGet(miss.key).obj # MissObject(miss)

(***************************************************************************)
(* Claims about the hit handler                                            *)
(***************************************************************************)

\* The bytes of the half-open range [start, min(n, end)) of the body.
SoughtRange ==
    IF hseek.start < Min(Len(hit.body), hseek.end)
    THEN SubSeq(hit.body, hseek.start + 1, Min(Len(hit.body), hseek.end))
    ELSE << >>

\* C15: a seek whose start is at or past the length of the body fails with
\* Invalid; a seek(start, Some(end)) with a start below the length succeeds
\* and the next read returns the bytes of [start, min(n, end)); a handle
\* that was never sought returns the full body on its first read.
C15_SeekThenRead ==
    /\ hseek.result # "none" =>
        (hseek.result = "invalid" <=> hseek.start >= Len(hit.body))
    /\ (hseek.result = "ok" /\ hseek.end # NoEnd /\ hout.kind \notin {"unread", "none"}) =>
        hout = SomeBytes(SoughtRange)
    /\ (hseek = NoSeek /\ hout.kind \notin {"unread", "none"}) =>
        hout = SomeBytes(hit.body)

\* The phases that forward the request to an upstream.
UpstreamPhases == {"proxy_upstream_filter", "upstream_peer", "upstream_request_filter"}

\* The places (from 1) of the configuration's locations that the server
\* lists and that match the request.
MatchingPlaces ==
    {i \in DOMAIN fconf.conf_locations :
        /\ fconf.conf_locations[i].name \in fconf.valid_locations
        /\ Matched(fconf.conf_locations[i], freq.host, freq.path)}

\* The place (from 1) in the configuration of the location request_filter
\* found.
FoundPlace ==
    CHOOSE i \in DOMAIN fconf.conf_locations : fconf.conf_locations[i].name = fout.lo

NoLocationMatched ==
    /\ "request_filter" \in fran
    /\ ServeStatsAdmin(fconf, freq) = {}
    /\ \A i \in DOMAIN fconf.locations : ~Matched(fconf.locations[i], freq.host, freq.path)

\* Claim C18: when no location of the server matches a request that reached
\* the location step, request_filter fails with an error of HTTP status 500;
\* no plugin is run, no location index is recorded, none of the phases that
\* forward to an upstream runs, and the request is answered with 500.
C18_NoLocationFails ==
    NoLocationMatched =>
        /\ fout.result = "err"
        /\ fout.e = NewInternalError(500)
        /\ fout.plugins = 0
        /\ fout.location_index = -1
        /\ fctx.location_index = -1
        /\ fran \cap UpstreamPhases = {}
        /\ fpc \in {"logging", "done"} => fctx.status = 500

\* C18's case: a server with locations none of which matches, the request
\* over.
C18_Witness ==
    /\ NoLocationMatched
    /\ fconf.locations # << >>
    /\ fpc = "done"

\* Claim C19: with an authorization token configured, a request whose
\* Authorization header is not "Basic <token>" is never handed to the admin
\* collaborator, and the response the server writes for it is a 401 with
\* WWW-Authenticate.
C19_AdminRequiresAuthorization ==
    ( /\ "request_filter" \in fran
      /\ fconf.authorization # OptNone
      /\ freq.authorization # <<"Basic", fconf.authorization[1]>> ) =>
        /\ ~fout.admin_invoked
        /\ fout.kind = "unauthorized" /\ fout.result = "done" =>
                fout.status = 401 /\ fout.www_authenticate

\* Claim C20: when a plugin of the request-phase chain responds,
\* request_filter reports done, no location index is recorded, and none of
\* proxy_upstream_filter, upstream_peer, upstream_request_filter runs.
C20_PluginRespondsEndsRequest ==
    (fout.kind = "plugin" /\ fout.e = NoError) =>
        /\ fout.result = "done"
        /\ fout.plugins >= 1
        /\ fout.location_index = -1
        /\ fctx.location_index = -1
        /\ fran \cap UpstreamPhases = {}
        /\ fpc \in {"logging", "done"}

\* C20's case: a plugin responded and the request is over.
C20_Witness ==
    /\ fout.kind = "plugin"
    /\ fout.e = NoError
    /\ fout.lo # ""
    /\ fpc = "done"

\* The code the error mapping of the specification gives an error.
MappedCode(e) ==
    IF e.etype = "HTTPStatus" THEN e.code
    ELSE IF e.esource = "Upstream" THEN 502
    ELSE IF e.esource = "Downstream" /\ e.etype \in {"WriteError", "ReadError"} THEN 500
    ELSE IF e.esource = "Downstream" /\ e.etype = "ConnectionClosed" THEN 499
    ELSE IF e.esource = "Downstream" THEN 400
    ELSE 500

\* Claim C21: the code fail_to_proxy returns for an error is its explicit
\* HTTP status whatever its source, else 502 for an upstream error, else for
\* a downstream error 500 (write, read), 499 (connection closed) or 400, else
\* 500; and the status recorded in the State, which the logging hook then
\* sees, is that code.
C21_ErrorMapping ==
    ppc # "fail_to_proxy" =>
        /\ pcode = MappedCode(perr)
        /\ pctx.status = pcode

\* C21's case: an upstream error that carries a status, mapped and logged.
C21_Witness ==
    /\ ppc = "done"
    /\ perr.etype = "HTTPStatus"
    /\ perr.esource = "Upstream"
    /\ pcode = 429

\* Claim C22: for a downstream connection closed (code 499), 499 is recorded
\* and fail_to_proxy hands neither a response header nor a response body to
\* the downstream session.
C22_NoResponseOnClientClose ==
    (ppc # "fail_to_proxy" /\ pcode = 499) =>
        /\ pctx.status = 499
        /\ psession.header_writes = 0
        /\ psession.body_writes = 0

\* Claim C23: after a run of the validity monitor, every certificate of the
\* list with now > not_after - offset or now < not_before has a webhook of
\* level Warn and category TlsValidity that names it.
C23_EveryOffenderNotified ==
    vpc = "ran" =>
        \A i \in DOMAIN vlist :
            (vnow > vlist[i].not_after - TimeOffset \/ vnow < vlist[i].not_before) =>
                TlsValidityWebhook(vlist[i].name) \in vsent

\* The entries of the upstream whose host the resolver fails to resolve.
FailedHosts == {i \in DOMAIN dconf.hosts : ~dresolver[dconf.hosts[i].host].ok}

\* The backends of all the addresses the resolver gives the entries.
ResolvedBackends ==
    {Backend(x, dconf.hosts[i].port, dconf.hosts[i].weight) :
        <<i, x>> \in {<<j, y>> \in (DOMAIN dconf.hosts) \X IpAddrs :
                          y \in dresolver[dconf.hosts[j].host].ips}}

\* Claim C24: a DNS discover() that returned either succeeded, every host
\* resolved, with a backend set that has backends of every entry, and sent no
\* webhook; or failed, some host not resolved, with no backends and exactly
\* one webhook of category ServiceDiscoverFail and level Warn. The caller's
\* backend set is not changed by the call, nor by the caller on a failure.
C24_DiscoverAllOrNothing ==
    /\ [](dpc = "returned" =>
            /\ dresult.ok <=> FailedHosts = {}
            /\ dresult.ok =>
                /\ dwebhooks = << >>
                /\ dresult.backends \subseteq ResolvedBackends
                /\ \A i \in DOMAIN dconf.hosts :
                      \A x \in dresolver[dconf.hosts[i].host].ips :
                          KeepAddress(dconf.ipv4_only, x) =>
                              Backend(x, dconf.hosts[i].port, dconf.hosts[i].weight)
                                  \in dresult.backends
            /\ ~dresult.ok =>
                /\ dresult.backends = {}
                /\ dwebhooks = <<DiscoverFailWebhook>>)
    /\ [][(dpc = "idle" /\ dpc' = "returned") => dheld' = dheld]_vars
    /\ [][(dpc = "returned" /\ ~dresult.ok) => dheld' = dheld]_vars

\* C24's case: a second discover fails, of two hosts only one not resolved,
\* while the caller holds the backends of the first.
C24_Witness ==
    /\ dpc = "returned"
    /\ druns = 2
    /\ ~dresult.ok
    /\ dheld # {}
    /\ Len(dconf.hosts) = 2
    /\ Cardinality(FailedHosts) = 1

\* Claim C30: in the backends of a static or DNS discovery that succeeded,
\* with ipv4_only no backend has an address that is not IPv4, and without it
\* every address resolved for an entry is a backend; every backend has the
\* port and the weight of an entry that its address was resolved from.
C30_Ipv4OnlyAndWeights ==
    ((dpc = "returned" \/ (dpc = "done" /\ dconf.kind = "static")) /\ dresult.ok) =>
        /\ dconf.ipv4_only => \A b \in dresult.backends : b.ip.v = 4
        /\ ~dconf.ipv4_only => dresult.backends = ResolvedBackends
        /\ \A b \in dresult.backends :
              \E i \in DOMAIN dconf.hosts :
                  /\ b.ip \in dresolver[dconf.hosts[i].host].ips
                  /\ b.port = dconf.hosts[i].port
                  /\ b.weight = dconf.hosts[i].weight

\* C30's case: with ipv4_only, the resolver gives an IPv6 address among
\* others, and the discovery gives backends of two weights.
C30_Witness ==
    /\ dpc = "done"
    /\ dconf.kind = "static"
    /\ dresult.ok
    /\ dconf.ipv4_only
    /\ \E i \in DOMAIN dconf.hosts : \E x \in dresolver[dconf.hosts[i].host].ips : x.v = 6
    /\ \E b1, b2 \in dresult.backends : b1.weight # b2.weight

\* The value a request has for a field of the scheme.
RequestValue(field, req) ==
    CASE field = "http.request.uri.path" -> req.path
      [] field = "http.request.method" -> req.method
      [] field = "http.user_agent" -> req.user_agent
      [] OTHER -> req.host

\* An expression of the plugin matches the request.
SomeExpressionMatches ==
    \E i \in DOMAIN wplugin.exps :
        RequestValue(wplugin.exps[i].field, wreq) = wplugin.exps[i].value

\* Claim C25: the expression filter called at its configured step answers
\* with the forbidden response (403) exactly when one of its expressions
\* matches the request, and continues when none does; called at another
\* step it continues.
C25_RejectsIffMatches ==
    wpc = "returned" =>
        IF wstep = wplugin.step
        THEN /\ wresult = PluginForbidden <=> SomeExpressionMatches
             /\ ~SomeExpressionMatches => wresult = PluginContinue
        ELSE wresult = PluginContinue

\* Claim C26: a limit plugin, an expression filter or an OWASP plugin made
\* with a step other than request or proxy_upstream is not made: the
\* construction gives an error.
C26_OtherStepIsConfigError ==
    (wpc # "new" /\ wconf.step \notin {"request", "proxy_upstream"}) => ~wplugin.ok

\* The background services spawned for an upstream.
ServicesOf(u) == {i \in DOMAIN aservices : aservices[i].name = u}

\* Claim C27: after Server::run, every upstream of the server that is
\* round-robin or consistent has exactly one background service, however
\* many locations use it, and an upstream of another kind has none.
C27_OneServicePerUpstream ==
    apc = "running" =>
        \A u \in aserver.upstreams :
            Cardinality(ServicesOf(u)) =
                IF aconf.upstreams[u] \in {"round_robin", "consistent"} THEN 1 ELSE 0

\* The request is for the stats path of the server.
IsStatsRequest == fconf.stats_path # OptNone /\ fconf.stats_path[1] = freq.path

\* The request is for the admin: the server is an admin server, or the path
\* starts with its admin path.
IsAdminRequest ==
    \/ fconf.admin
    \/ fconf.admin_path # OptNone /\ IsPrefix(fconf.admin_path[1], freq.path)

\* Claim C28: after request_filter, a request for the stats path was
\* answered with status 200 and reported done with no admin handling, no
\* location found and no plugin run; another request for the admin was
\* handled as such with no location found and no plugin run; and a location
\* index is recorded only when a location was found and its plugin chain ran
\* through without responding.
C28_RequestFilterOrder ==
    "request_filter" \in fran =>
        /\ IsStatsRequest =>
            /\ fout.kind = "stats" /\ fout.result = "done" /\ fout.status = 200
            /\ fctx.status = 200
            /\ ~fout.admin_invoked /\ ~fout.www_authenticate
            /\ fout.lo = "" /\ fout.plugins = 0 /\ fout.location_index = -1
        /\ (~IsStatsRequest /\ IsAdminRequest) =>
            /\ fout.kind \in {"admin", "unauthorized"}
            /\ fout.lo = "" /\ fout.plugins = 0 /\ fout.location_index = -1
        /\ fctx.location_index # -1 =>
            /\ fout.kind = "proxy" /\ fout.result = "continue"
            /\ fout.lo # ""
            /\ fctx.location_index = fout.location_index

\* C28's case: a request for the stats path of an admin server that a
\* location matches as well.
C28_Witness ==
    /\ "request_filter" \in fran
    /\ IsStatsRequest
    /\ fconf.admin
    /\ MatchingPlaces # {}

\* Claim C29: upstream_response_filter leaves a status that is recorded as it
\* is, and records the upstream's when none is; the logging hook leaves a
\* status that is recorded as it is, and records the status of the response
\* written when none is.
C29_FirstWriterWins ==
    [][/\ (fpc = "upstream_response_filter" /\ fctx.status # 0) =>
            fctx'.status = fctx.status
       /\ (fpc = "upstream_response_filter" /\ fctx.status = 0) =>
            fctx'.status \in UpstreamStatuses \cup {InterimStatus}
       /\ (fpc = "logging" /\ fctx.status # 0) => fctx'.status = fctx.status
       /\ (fpc = "logging" /\ fctx.status = 0) => fctx'.status = fwritten]_vars

\* C29's case: the status of an interim header was recorded, the final
\* header had another status, and the request is logged with the first.
C29_Witness ==
    /\ fpc = "done"
    /\ "upstream_response_filter" \in fran
    /\ fctx.status = InterimStatus
    /\ fwritten # fctx.status

\* A certificate within its period at the time now, the offset kept clear of
\* its end.
WithinPeriod(cert, now) ==
    cert.not_before <= now /\ now <= cert.not_after - TimeOffset

\* Claim C31: validity_check returns Ok exactly when every certificate of the
\* list has not_before <= now <= not_after - offset; otherwise its message is
\* the one of the first such certificate of the list: "will be expired" when
\* now > not_after - offset, also when now < not_before, and else
\* "<name> cert is not valid, issuer: <issuer>, valid date: <not_before>".
C31_ValidityCheckResult ==
    vpc = "ran" =>
        LET bad == {i \in DOMAIN vlist : ~WithinPeriod(vlist[i], vnow)}
            first == CHOOSE i \in bad : \A j \in bad : i <= j
        IN  /\ vresult.ok <=> bad = {}
            /\ bad # {} =>
                vresult.message =
                    IF vnow > vlist[first].not_after - TimeOffset
                    THEN <<vlist[first].name, " cert will be expired, issuer: ",
                           vlist[first].issuer, ", expired date: ",
                           vlist[first].not_after>>
                    ELSE <<vlist[first].name, " cert is not valid, issuer: ",
                           vlist[first].issuer, ", valid date: ",
                           vlist[first].not_before>>

\* A run over two offending certificates, the first of them both too close to
\* its end and not valid yet.
C31_Witness ==
    /\ vpc = "ran"
    /\ Len(vlist) = 2
    /\ vnow > vlist[1].not_after - TimeOffset
    /\ vnow < vlist[1].not_before
    /\ ~WithinPeriod(vlist[2], vnow)
    /\ ~vresult.ok

\* The number of bytes of the pieces write_body was given.
GivenLen ==
    LET Sum[i \in 0..Len(ogiven.chunks)] ==
            IF i = 0 THEN 0 ELSE Sum[i - 1] + ogiven.chunks[i].len
    IN  Sum[Len(ogiven.chunks)]

\* Claim C32: finish makes one put to the storage, under the key of the
\* handler, of the object whose meta is the one the handler was made with and
\* whose body is the pieces given to write_body in the order of the calls,
\* with the weight 4 for a body under 50 KiB, 2 under 500 KiB and 1
\* otherwise; it returns the length of the body, or the error of the storage.
C32_FinishStoresObject ==
    opc = "finished" =>
        /\ Len(oputs) = 1
        /\ oputs[1].key = ogiven.key
        /\ oputs[1].data.meta = ogiven.meta
        /\ oputs[1].data.body = ogiven.chunks
        /\ oputs[1].weight = (IF GivenLen < 51200 THEN 4
                              ELSE IF GivenLen < 512000 THEN 2 ELSE 1)
        /\ oret \in {FinishOk(GivenLen), FinishErr}

\* A handler given two different pieces that make 50 KiB together has
\* finished.
C32_Witness ==
    /\ opc = "finished"
    /\ oret.kind = "ok"
    /\ Len(ogiven.chunks) = 2
    /\ ogiven.chunks[1] # ogiven.chunks[2]
    /\ oret.size = 51200
    /\ oputs[1].weight = 2

\* The texts of a max that are an unsigned 32-bit integer.
U32Texts == {<<"1", "0">>, <<"0">>, <<"+", "1">>, U32Max}

\* The index of the first space of the value, 0 when it has none.
FirstSpace ==
    IF \A i \in DOMAIN nvalue : nvalue[i] # " " THEN 0
    ELSE CHOOSE i \in DOMAIN nvalue :
            nvalue[i] = " " /\ \A j \in 1..(i - 1) : nvalue[j] # " "

AdmittedOthers(r, i, key) ==
    {o \in Requests \ {r} :
        \/ lctx[o].guard = NewGuard(i, key)
        \/ lguard[o] = NewGuard(i, key) /\ ~Exceeds(lvalue[o], lchain[i].max)}

\* Claim C34: a request whose increment gives a value over max, and which is
\* therefore rejected with 429, finds at that moment at least max other
\* requests that hold a guard of the same key and are admitted; the
\* increments of requests that are being rejected do not count.
C34_RejectedOnlyWhenFull ==
    [][\A r \in Requests :
        (lpc[r] = "chain" /\ lpc'[r] = "check"
            /\ Exceeds(lvalue'[r], lchain[lidx[r]].max)) =>
            Cardinality(AdmittedOthers(r, lidx[r], lguard'[r].key))
                >= lchain[lidx[r]].max]_vars

\* Claim C39: the location proxy_upstream_filter and upstream_peer take for a
\* request is the one request_filter found for it: the State holds an index,
\* it is the index of the first location of the server's list that matches
\* the host and the path of the request, and the phases do not take the
\* location of the default index in its place.
C39_PhasesUseMatchedLocation ==
    \A u \in fused :
        /\ fctx.location_index # -1
        /\ u.index = fctx.location_index
        /\ u.lo = fout.lo
        /\ u.index + 1 \in DOMAIN fconf.locations
        /\ Matched(fconf.locations[u.index + 1], freq.host, freq.path)
        /\ \A j \in 1..u.index : ~Matched(fconf.locations[j], freq.host, freq.path)

\* Both phases ran for a request whose location is not the first of the list.
C39_Witness ==
    /\ \E u \in fused : u.phase = "proxy_upstream_filter" /\ u.index > 0
    /\ \E u \in fused : u.phase = "upstream_peer" /\ u.index > 0

\* Claim C35: whatever seeks were called on a hit handle, its range lies
\* within the body, range_start <= range_end <= n, and no read fails.
C35_RangeWithinBody ==
    /\ hit.range_start <= hit.range_end
    /\ hit.range_end <= Len(hit.body)
    /\ hout.kind # "panic"

\* Claim C40: a seek that fails leaves the handle as it was, range and read
\* flag; after a seek that succeeded the handle is unread; the read of an
\* unread handle returns the bytes of its range and leaves it read, and the
\* read of a read handle returns none.
C40_FailedSeekChangesNothing ==
    [][/\ (hseek'.result = "invalid" /\ hseek' # hseek) =>
            /\ hit' = hit
            /\ CompleteHitGet(hit') = CompleteHitGet(hit)
       /\ (hseek'.result = "ok" /\ hout' = Unread) => ~hit'.done
       /\ (hout' # Unread /\ (hout' # hout \/ hit' # hit)) =>
            /\ hit'.done
            /\ hit'.range_start = hit.range_start
            /\ hit'.range_end = hit.range_end
            /\ hit.done => hout' = NoBytes
            /\ (~hit.done /\ hit.range_start <= hit.range_end) =>
                hout' = SomeBytes(SubSeq(hit.body, hit.range_start + 1, hit.range_end))]_vars

\* A handle was sought, read twice, and then sought past its end.
C40_Witness ==
    /\ hseek.result = "invalid"
    /\ hit.range_start > 0
    /\ hit.done
    /\ hout = NoBytes

\* Claim C36: decoding never fails: every file of the directory, a file cut
\* short by a failed write included, decodes to an object, and a get returns
\* an object or none.
C36_DecodeIsTotal ==
    /\ \A k \in CacheKeys : directory[k].exists => ~Decode(directory[k].buf).panic
    /\ got.result.kind # "panic"

\* Claim C37: when a put(k, v) fails at the write of its file, the file not
\* being the encoding of v after it, and no other put of k ran meanwhile, a
\* get(k) returns what it returned before the put was called.
C37_FailedPutChangesNothing ==
    [][\A c \in Callers : \A k \in CacheKeys :
        (/\ puts[c].pc = "write"
         /\ puts[c].key = k
         /\ puts'[c].pc = "idle"
         /\ got' # NewInstance
         /\ ~puts[c].overlapped
         /\ directory'[k] # File(Encode(puts[c].data))) =>
            FileCacheGet(k)' = pbefore[c]]_vars

\* Claim C38: when a put of a key returns after it overlapped with another
\* put of the key, which has returned with its file written, and the file is
\* now the encoding of its own object, the memory tier holds the object of
\* the file, so that get returns the same with and without the memory entry.
C38_ConcurrentPutsAgree ==
    [][\A c \in Callers : \A k \in CacheKeys :
        (/\ puts[c].pc = "write"
         /\ puts[c].key = k
         /\ puts'[c].pc = "idle"
         /\ got' # NewInstance
         /\ puts[c].overlapped
         /\ PutsInProgress(c, k) = {}
         /\ directory[k] # File(Encode(puts[c].data))
         /\ directory[k] \in {File(Encode(v)) : v \in CacheValues}
         /\ directory'[k] = File(Encode(puts[c].data))) =>
            /\ cache'[k] \in {None, Some(puts[c].data)}
            /\ FileCacheGet(k)' = FileCacheGetFile(k)']_vars

====
